---------------------------- MODULE Spec2Model ----------------------------
(***************************************************************************)
(* Model of the retrieval pipeline of the Vintage Story assistant:         *)
(*   services/wiki_service.rs       the crawler (update_content)           *)
(*   services/embedding_service.rs  chunking, embedding, ingestion, search *)
(*   services/vector_database.rs    the sled-backed vector store           *)
(*                                                                         *)
(* Strings are sequences of bytes.  f32 values are kept in fixed point     *)
(* with three decimals (1.0 is 1000), so that a score is an integer in     *)
(* -1000..1000; a vector is the record [len, nz] of its length and of its  *)
(* non-zero components (0-based indices, as in the code).                  *)
(***************************************************************************)
EXTENDS Integers, Sequences, FiniteSets, TLC

(***************************************************************************)
(* Bounds of the model                                                     *)
(***************************************************************************)
\* update_content runs on one WikiService
MaxRuns == 2
\* operations on one EmbeddingService in the ingestion specification
MaxOps == 2

(***************************************************************************)
(* Program constants                                                       *)
(***************************************************************************)
chunk_size == 512
chunk_overlap == 50
MinChunkLen == 50
EmbeddingDim == 384
MaxHashedWords == 100
max_depth == 3
MaxLinksPerPage == 5

(***************************************************************************)
(* Bytes and strings                                                       *)
(***************************************************************************)
\* F at the value of e: `LET x == e IN F(x)' with e evaluated once
With(e, F(_)) == CHOOSE r \in {F(x) : x \in {e}} : TRUE

Min(a, b) == IF a <= b THEN a ELSE b

\* char::is_whitespace on the ASCII range
IsWhitespace(b) == b \in {9, 10, 11, 12, 13, 32}

\* char::is_alphanumeric on the ASCII range
IsAlphanumeric(b) == (b >= 48 /\ b <= 57) \/ (b >= 65 /\ b <= 90) \/ (b >= 97 /\ b <= 122)

ToLower(b) == IF b >= 65 /\ b <= 90 THEN b + 32 ELSE b

\* the elements of a finite set of integers, ascending
RECURSIVE AscendingIn(_, _, _)
AscendingIn(S, lo, hi) ==
  IF S = {} THEN <<>>
  ELSE IF lo = hi THEN <<lo>>
  ELSE With((lo + hi) \div 2, LAMBDA mid :
         AscendingIn({x \in S : x <= mid}, lo, mid)
           \o AscendingIn({x \in S : x > mid}, mid + 1, hi))

\* for positions in a text: integers from 0 to 65535
Ascending(S) == AscendingIn(S, 0, 65535)

\* str::trim
Trim(text) ==
  With(text, LAMBDA t :
  With({i \in 1..Len(t) : ~IsWhitespace(t[i])}, LAMBDA keep :
    IF keep = {} THEN <<>>
    ELSE SubSeq(t, CHOOSE i \in keep : \A j \in keep : i <= j,
                   CHOOSE i \in keep : \A j \in keep : j <= i)))

\* str::split_whitespace, collected
SplitWhitespace(text) ==
  With(text, LAMBDA t :
  With(Ascending({i \in 1..Len(t) :
                    ~IsWhitespace(t[i]) /\ (i = 1 \/ IsWhitespace(t[i - 1]))}), LAMBDA s :
  With(Ascending({i \in 1..Len(t) :
                    ~IsWhitespace(t[i]) /\ (i = Len(t) \/ IsWhitespace(t[i + 1]))}), LAMBDA e :
    [k \in 1..Len(s) |-> SubSeq(t, s[k], e[k])])))

\* [&str]::join(" ")
RECURSIVE JoinSpace(_)
JoinSpace(ws) ==
  IF ws = <<>> THEN <<>>
  ELSE IF Len(ws) = 1 THEN ws[1]
  ELSE ws[1] \o <<32>> \o JoinSpace(Tail(ws))

\* usize::to_string
RECURSIVE Decimal(_)
Decimal(n) == IF n < 10 THEN <<48 + n>> ELSE Decimal(n \div 10) \o <<48 + (n % 10)>>

\* the order of byte strings: sled iterates its keys in this order
RECURSIVE BytesLess(_, _)
BytesLess(a, b) ==
  IF b = <<>> THEN FALSE
  ELSE IF a = <<>> THEN TRUE
  ELSE IF a[1] # b[1] THEN a[1] < b[1]
  ELSE BytesLess(Tail(a), Tail(b))

\* n copies of the word w, separated by single spaces
RECURSIVE Repeat(_, _)
Repeat(w, n) == IF n = 0 THEN <<>> ELSE IF n = 1 THEN w ELSE w \o <<32>> \o Repeat(w, n - 1)

(***************************************************************************)
(* Chunker (EmbeddingService::split_into_chunks)                           *)
(***************************************************************************)
\* the while loop; start is 0-based.  The result is the chunks pushed, and
\* `diverged' when the loop cannot end: it is still running after `fuel'
\* iterations, or end - overlap is below zero
RECURSIVE ChunkLoop(_, _, _, _, _, _)
ChunkLoop(words, size, overlap, start, chunks, fuel) ==
  IF ~(start < Len(words)) THEN [chunks |-> chunks, diverged |-> FALSE]
  ELSE IF fuel = 0 THEN [chunks |-> chunks, diverged |-> TRUE]
  ELSE With(Min(start + size, Len(words)), LAMBDA end :
       With(JoinSpace(SubSeq(words, start + 1, end)), LAMBDA chunk :
       With(IF Trim(chunk) # <<>> THEN Append(chunks, chunk) ELSE chunks, LAMBDA pushed :
         IF end >= Len(words) THEN [chunks |-> pushed, diverged |-> FALSE]
         ELSE IF end - overlap < 0 THEN [chunks |-> pushed, diverged |-> TRUE]
         ELSE ChunkLoop(words, size, overlap, end - overlap, pushed, fuel - 1))))

split_into_chunks(content, size, overlap) ==
  With(SplitWhitespace(content), LAMBDA words :
    IF Len(words) <= size THEN [chunks |-> <<content>>, diverged |-> FALSE]
    ELSE ChunkLoop(words, size, overlap, 0, <<>>, Len(words) + 1))

\* filter(alphanumeric or whitespace), replace(' ', "_"), to_lowercase
sanitize_title(title) ==
  With(SelectSeq(title, LAMBDA c : IsAlphanumeric(c) \/ IsWhitespace(c)), LAMBDA kept :
    [i \in 1..Len(kept) |-> IF kept[i] = 32 THEN 95 ELSE ToLower(kept[i])])

(***************************************************************************)
(* Embeddings (EmbeddingService::create_embedding and its fallback)        *)
(***************************************************************************)
RECURSIVE SumOver(_, _)
SumOver(f, S) ==
  IF S = {} THEN 0
  ELSE With(CHOOSE y \in S : TRUE, LAMBDA x : f[x] + SumOver(f, S \ {x}))

\* the largest r in lo..hi with r * r <= n
RECURSIVE SqrtSearch(_, _, _)
SqrtSearch(n, lo, hi) ==
  IF lo >= hi THEN lo
  ELSE With((lo + hi + 1) \div 2, LAMBDA mid :
         IF mid * mid <= n THEN SqrtSearch(n, mid, hi) ELSE SqrtSearch(n, lo, mid - 1))

\* f32::sqrt in fixed point
Sqrt(n) == SqrtSearch(n, 0, 46340)

\* a vector given by its non-zero components
Vec(len, nz) == [len |-> len, nz |-> nz]

\* drops the components that are zero
Compact(len, components) ==
  With(components, LAMBDA f : Vec(len, [i \in {j \in DOMAIN f : f[j] # 0} |-> f[i]]))

\* iter().map(|x| x * x).sum().sqrt(), in fixed point
Magnitude(vec) ==
  With(vec.nz, LAMBDA nz : Sqrt(SumOver([i \in DOMAIN nz |-> nz[i] * nz[i]], DOMAIN nz)))

\* a u32 is kept as its two 16-bit halves [hi, lo]: the value is hi * 65536 + lo
\* hash.wrapping_mul(31).wrapping_add(byte) over the bytes of the word
RECURSIVE HashFrom(_, _)
HashFrom(hash, bytes) ==
  IF bytes = <<>> THEN hash
  ELSE With(hash.lo * 31 + bytes[1], LAMBDA low :
         HashFrom([hi |-> ((hash.hi * 31) + (low \div 65536)) % 65536, lo |-> low % 65536],
                  Tail(bytes)))

simple_hash(word) == HashFrom([hi |-> 0, lo |-> 0], word)

\* (hash as usize) % len, for a len below 65536
HashIndex(hash, len) == (((hash.hi % len) * (65536 % len)) + hash.lo) % len

WordSlotsOfAllWords(words) ==
  [k \in 1..Len(words) |-> HashIndex(simple_hash(words[k]), EmbeddingDim)]

\* hash % embedding.len() of the first MaxHashedWords words
WordSlots(words) ==
  [k \in 1..Min(Len(words), MaxHashedWords) |-> HashIndex(simple_hash(words[k]), EmbeddingDim)]

\* embedding[index] += 1.0 / word_count, for the slots from the k-th on
AddWords(f, slots, k, inc) ==
  [i \in DOMAIN f |-> f[i] + inc * Cardinality({j \in k..Len(slots) : slots[j] = i})]

\* the fallback vector: hashed word slots, three statistics, L2 normalisation
create_mock_embedding(text) ==
  With(SplitWhitespace(text), LAMBDA words :
  With(WordSlots(words), LAMBDA slots :
  With(AddWords([i \in {slots[k] : k \in 1..Len(slots)} \cup {0, 1, 2} |-> 0], slots, 1,
                IF words = <<>> THEN 0 ELSE 1000 \div Len(words)), LAMBDA hashed :
  With(Cardinality({i \in 1..Len(text) : text[i] = 46}), LAMBDA dots :
  With(Compact(EmbeddingDim,
               [hashed EXCEPT ![0] = Len(text), ![1] = Len(words) * 10, ![2] = dots * 100]),
       LAMBDA raw :
  With(Magnitude(raw), LAMBDA magnitude :
    [ok |-> TRUE,
     vec |-> IF magnitude > 0
             THEN Compact(EmbeddingDim,
                          [i \in DOMAIN raw.nz |-> (raw.nz[i] * 1000) \div magnitude])
             ELSE raw]))))))

\* embedding_array.iter().filter_map(|v| v.as_f64()): the numeric elements, in order
NumericElements(arr) ==
  With(DOMAIN arr.nz \ arr.bad, LAMBDA kept :
  With([i \in kept |-> i - Cardinality({j \in arr.bad : j < i})], LAMBDA new_index :
    Vec(arr.len - Cardinality(arr.bad),
        [k \in {new_index[i] : i \in kept} |->
           arr.nz[CHOOSE i \in kept : new_index[i] = k]])))

CreateEmbeddingErrOnStatus(text, resp) ==
  IF resp.kind = "status" THEN [ok |-> FALSE, vec |-> Vec(0, <<>>)]
  ELSE IF resp.kind = "array"
  THEN With(NumericElements(resp.arr), LAMBDA embedding :
         IF embedding.len > 0 THEN [ok |-> TRUE, vec |-> embedding]
         ELSE create_mock_embedding(text))
  ELSE create_mock_embedding(text)

\* resp is the outcome of the POST to /api/embeddings:
\*   "connect", "timeout"   send() failed
\*   "status"               a non-2xx answer
\*   "body"                 the body is not JSON
\*   "missing", "not_array" result["embedding"].as_array() is None
\*   "array"                an array of resp.arr.len elements, of which those at
\*                          resp.arr.bad are not numbers
create_embedding(text, resp) ==
  IF resp.kind = "array"
  THEN With(NumericElements(resp.arr), LAMBDA embedding :
         IF embedding.len > 0 THEN [ok |-> TRUE, vec |-> embedding]
         ELSE create_mock_embedding(text))
  ELSE create_mock_embedding(text)

\* the f32 division n / d in fixed point (1000 is 1.0): the quotient with three
\* decimal places, by long division, for d > 0
Ratio(n, d) ==
  IF n < 0
  THEN 0 - With(((0 - n) % d) * 10, LAMBDA r1 : With((r1 % d) * 10, LAMBDA r2 :
             ((0 - n) \div d) * 1000 + (r1 \div d) * 100 + (r2 \div d) * 10
               + (((r2 % d) * 10) \div d)))
  ELSE With((n % d) * 10, LAMBDA r1 : With((r1 % d) * 10, LAMBDA r2 :
         (n \div d) * 1000 + (r1 \div d) * 100 + (r2 \div d) * 10
           + (((r2 % d) * 10) \div d)))

\* the products a * b of fixed-point components, summed: a dot product at the
\* scale of 1000 * 1000
Products(vec_a, vec_b) ==
  With(DOMAIN vec_a.nz \cap DOMAIN vec_b.nz, LAMBDA common :
    SumOver([i \in common |-> vec_a.nz[i] * vec_b.nz[i]], common))

CosineIgnoresLength(vec_a, vec_b) ==
  With(Products(vec_a, vec_b), LAMBDA dot_product :
  With(Magnitude(vec_a), LAMBDA magnitude_a :
  With(Magnitude(vec_b), LAMBDA magnitude_b :
    IF magnitude_a = 0 \/ magnitude_b = 0 THEN 0
    ELSE Ratio(dot_product, magnitude_a * magnitude_b))))

\* EmbeddingService::cosine_similarity
CosineSimilarity(vec_a, vec_b) ==
  IF vec_a.len # vec_b.len THEN 0
  ELSE With(Products(vec_a, vec_b), LAMBDA dot_product :
       With(Magnitude(vec_a), LAMBDA magnitude_a :
       With(Magnitude(vec_b), LAMBDA magnitude_b :
         IF magnitude_a = 0 \/ magnitude_b = 0 THEN 0
         ELSE Ratio(dot_product, magnitude_a * magnitude_b))))

\* VectorDatabase::cosine_similarity
db_cosine_similarity(vec_a, vec_b) ==
  IF vec_a.len # vec_b.len THEN 0
  ELSE With(Products(vec_a, vec_b), LAMBDA dot_product :
       With(Sqrt(SumOver([i \in DOMAIN vec_a.nz |-> vec_a.nz[i] * vec_a.nz[i]],
                         DOMAIN vec_a.nz)), LAMBDA magnitude_a :
       With(Sqrt(SumOver([i \in DOMAIN vec_b.nz |-> vec_b.nz[i] * vec_b.nz[i]],
                         DOMAIN vec_b.nz)), LAMBDA magnitude_b :
         IF magnitude_a = 0 \/ magnitude_b = 0 THEN 0
         ELSE Ratio(dot_product, magnitude_a * magnitude_b))))

(***************************************************************************)
(* Vector store (VectorDatabase)                                           *)
(***************************************************************************)
\* serde_json::to_string of the metadata map, and serde_json::from_str
ToJson(map) == [json |-> map]
FromJson(str) == str.json

\* the keys of the store in sled's iteration order
RECURSIVE KeysInOrder(_)
KeysInOrder(keys) ==
  IF keys = {} THEN <<>>
  ELSE With(CHOOSE k \in keys : \A other \in keys \ {k} : BytesLess(k, other), LAMBDA first :
         <<first>> \o KeysInOrder(keys \ {first}))

\* sort_by(|a, b| b.score.partial_cmp(&a.score)): stable, highest score first
RECURSIVE SortByScore(_)
SortByScore(results) ==
  IF results = <<>> THEN <<>>
  ELSE With(SortByScore(SubSeq(results, 1, Len(results) - 1)), LAMBDA sorted :
       With(results[Len(results)], LAMBDA x :
         SelectSeq(sorted, LAMBDA r : r.score >= x.score) \o <<x>>
           \o SelectSeq(sorted, LAMBDA r : r.score < x.score)))

\* Vec::truncate
Truncate(seq, limit) == SubSeq(seq, 1, Min(limit, Len(seq)))

\* the batch as sled applies it: one value per key, the last one written
BatchApplied(db, documents) ==
  With({documents[i].id : i \in 1..Len(documents)}, LAMBDA ids :
    [id \in DOMAIN db \cup ids |->
       IF id \in ids
       THEN documents[CHOOSE i \in 1..Len(documents) :
                        /\ documents[i].id = id
                        /\ \A j \in (i + 1)..Len(documents) : documents[j].id # id]
       ELSE db[id]])

InsertDocumentsSwallowFault(db, documents, fault) ==
  IF documents = <<>> THEN [ok |-> TRUE, db |-> db]
  ELSE [ok |-> TRUE, db |-> IF fault = "apply" THEN db ELSE BatchApplied(db, documents)]

\* fault is what the storage does to this call:
\*   "apply"  bincode::serialize or apply_batch fails: nothing is written
\*   "flush"  flush fails, after the batch was applied
insert_documents(db, documents, fault) ==
  IF documents = <<>> THEN [ok |-> TRUE, db |-> db]
  ELSE IF fault = "apply" THEN [ok |-> FALSE, db |-> db]
  ELSE IF fault = "flush" THEN [ok |-> FALSE, db |-> BatchApplied(db, documents)]
  ELSE [ok |-> TRUE, db |-> BatchApplied(db, documents)]

\* the scan of search_similar: every readable record with its score, in key order
Scored(db, embedding, unreadable) ==
  With(KeysInOrder(DOMAIN db \ unreadable), LAMBDA keys :
    [k \in 1..Len(keys) |->
       [doc |-> db[keys[k]], score |-> db_cosine_similarity(embedding, db[keys[k]].embedding)]])

DbSearchNoSort(db, embedding, limit, unreadable) ==
  With(Scored(db, embedding, unreadable), LAMBDA results : Truncate(results, limit))

\* VectorDatabase::search_similar; the entries of `unreadable' are those the
\* scan cannot read or deserialize: they are logged and left out
db_search_similar(db, embedding, limit, unreadable) ==
  With(Scored(db, embedding, unreadable), LAMBDA results :
    Truncate(SortByScore(results), limit))

\* the store without the records of `keys'
Without(db, keys) == [id \in DOMAIN db \ keys |-> db[id]]

\* VectorDatabase::delete_by_source: the scan leaves out the records it cannot
\* read or deserialize; fault is "apply" when apply_batch fails and "flush"
\* when flush fails, after the batch was applied
delete_by_source(db, source_url, fault, unreadable) ==
  With({id \in DOMAIN db \ unreadable : db[id].source_url = source_url}, LAMBDA keys_to_delete :
    IF fault = "apply" THEN [ok |-> FALSE, db |-> db]
    ELSE IF fault = "flush" THEN [ok |-> FALSE, db |-> Without(db, keys_to_delete)]
    ELSE [ok |-> TRUE, db |-> Without(db, keys_to_delete)])

\* VectorDatabase::count_documents
count_documents(db) == Cardinality(DOMAIN db)

(***************************************************************************)
(* Ingestion and retrieval (EmbeddingService)                              *)
(***************************************************************************)
\* Option<Vec<f32>>: Some(v) is <<v>>, None is <<>>
Some(v) == <<v>>
None == <<>>

\* the body of the chunk loop of process_wiki_page, for the chunks from index i
\* (0-based) on; resps[i] is the provider's answer to the request for chunk i.
\* The batches of batch_size chunks only group the iterations of this loop.
RECURSIVE EmbedChunks(_, _, _, _, _)
EmbedChunks(title, url, parts, i, resps) ==
  IF i >= Len(parts) THEN <<>>
  ELSE With(parts[i + 1], LAMBDA chunk_content :
         IF Len(Trim(chunk_content)) < MinChunkLen
         THEN EmbedChunks(title, url, parts, i + 1, resps)
         ELSE With(create_embedding(chunk_content, resps[i]), LAMBDA embedding :
                IF embedding.ok
                THEN <<[id |-> sanitize_title(title) \o <<95>> \o Decimal(i),
                        content |-> chunk_content,
                        source_url |-> url,
                        source_title |-> title,
                        embedding |-> Some(embedding.vec),
                        metadata |-> [source_type |-> "wiki", chunk_index |-> Decimal(i)]]>>
                     \o EmbedChunks(title, url, parts, i + 1, resps)
                ELSE EmbedChunks(title, url, parts, i + 1, resps)))

\* the VectorDocuments of the chunks that carry an embedding
Documents(chunks) ==
  With(SelectSeq(chunks, LAMBDA c : c.embedding # None), LAMBDA embedded :
    [k \in 1..Len(embedded) |->
       [id |-> embedded[k].id,
        content |-> embedded[k].content,
        source_url |-> embedded[k].source_url,
        source_title |-> embedded[k].source_title,
        embedding |-> embedded[k].embedding[1],
        metadata |-> ToJson(embedded[k].metadata)]])

\* the tail of process_wiki_page: the cache is extended, then saved as a whole
SaveChunks(chunks, db, batch_chunks, fault, keep_on_fault) ==
  With(chunks \o batch_chunks, LAMBDA extended :
  With(IF extended # <<>>
       THEN With(Documents(extended), LAMBDA documents : insert_documents(db, documents, fault))
       ELSE [ok |-> TRUE, db |-> db], LAMBDA insert :
    [ok |-> TRUE,
     chunks |-> IF insert.ok \/ keep_on_fault THEN extended ELSE chunks,
     db |-> insert.db,
     embedded |-> batch_chunks,
     insert_ok |-> insert.ok]))

ProcessWikiPageDropOnFault(chunks, db, title, url, content, resps, fault) ==
  With(split_into_chunks(content, chunk_size, chunk_overlap).chunks, LAMBDA parts :
  With(EmbedChunks(title, url, parts, 0, resps), LAMBDA batch_chunks :
    SaveChunks(chunks, db, batch_chunks, fault, FALSE)))

\* EmbeddingService::process_wiki_page: the new cache and store, the chunks this
\* call embedded, and whether insert_documents succeeded
process_wiki_page(chunks, db, title, url, content, resps, fault) ==
  With(split_into_chunks(content, chunk_size, chunk_overlap).chunks, LAMBDA parts :
  With(EmbedChunks(title, url, parts, 0, resps), LAMBDA batch_chunks :
    SaveChunks(chunks, db, batch_chunks, fault, TRUE)))

\* get_chunk_count: the length of the cache
get_chunk_count(chunks) == Len(chunks)

\* the in-memory ranking of search_similar
MemoryResults(chunks, query_embedding, limit) ==
  With(SelectSeq(chunks, LAMBDA c : c.embedding # None), LAMBDA embedded :
  With([k \in 1..Len(embedded) |->
          [chunk |-> embedded[k],
           score |-> CosineSimilarity(query_embedding, embedded[k].embedding[1])]],
       LAMBDA memory_results :
    Truncate(SortByScore(memory_results), limit)))

\* the store's results as SimilarityResults
StoreResults(db_results) ==
  [k \in 1..Len(db_results) |->
     [chunk |-> [id |-> db_results[k].doc.id,
                 content |-> db_results[k].doc.content,
                 source_url |-> db_results[k].doc.source_url,
                 source_title |-> db_results[k].doc.source_title,
                 embedding |-> None,
                 metadata |-> FromJson(db_results[k].doc.metadata)],
      score |-> db_results[k].score]]

SearchSimilarPreferCache(chunks, db, query, limit, resp, unreadable) ==
  With(create_embedding(query, resp), LAMBDA query_embedding :
  With(db_search_similar(db, query_embedding.vec, limit, unreadable), LAMBDA db_results :
    IF chunks # <<>>
    THEN [ok |-> TRUE, results |-> MemoryResults(chunks, query_embedding.vec, limit),
          from |-> "cache"]
    ELSE [ok |-> TRUE, results |-> StoreResults(db_results), from |-> "store"]))

\* EmbeddingService::search_similar; `from' names the branch that returned
search_similar(chunks, db, query, limit, resp, unreadable) ==
  With(create_embedding(query, resp), LAMBDA query_embedding :
    IF ~query_embedding.ok THEN [ok |-> FALSE, results |-> <<>>, from |-> "error"]
    ELSE With(db_search_similar(db, query_embedding.vec, limit, unreadable),
              LAMBDA db_results :
           IF db_results = <<>> /\ chunks # <<>>
           THEN [ok |-> TRUE, results |-> MemoryResults(chunks, query_embedding.vec, limit),
                 from |-> "cache"]
           ELSE [ok |-> TRUE, results |-> StoreResults(db_results), from |-> "store"]))

(***************************************************************************)
(* Crawler (WikiService): links and pages                                  *)
(***************************************************************************)
\* An href or a URL is kept as the parts the code looks at:
\*   form "wiki"   /wiki/<name>               "index"  /index.php?title=<name>
\*        "rel"    index.php?title=<name>     "abs"    https://wiki.vintagestory.at/index.php?title=<name>
\*        "ext"    https://example.org/?title=<name>
\*        "other"  /<name>.html
\*        "abs_wiki", "abs_other"  the base URL followed by a "wiki" or "other" href
\*   <name> is ns:page when ns is not "", and ends with #section when frag
Href(form, ns, page, frag) == [form |-> form, ns |-> ns, page |-> page, frag |-> frag]
Link(form, page) == Href(form, "", page, FALSE)

\* format!("{}{}", self.config.base_url, entry_point) and format!("{}{}", base_url, link)
WithBaseUrl(link) ==
  [link EXCEPT !.form = IF link.form = "index" THEN "abs"
                        ELSE IF link.form = "wiki" THEN "abs_wiki" ELSE "abs_other"]

\* the three selectors of extract_wiki_links
MatchesLinkSelector(href) == href.form \in {"wiki", "index", "rel", "abs", "ext"}

\* the hrefs extract_wiki_links keeps, normalised; content.anchors are the
\* anchors of the fragment parsed from the page content
extract_wiki_links(content) ==
  { IF href.form = "wiki" THEN [href EXCEPT !.form = "index"] ELSE href :
      href \in { h \in content.anchors :
                   /\ MatchesLinkSelector(h)
                   /\ ~(h.form = "ext")
                   /\ ~(h.ns \in {"Special", "File", "Category"})
                   /\ ~h.frag } }

\* "No content could be extracted from this page."
NoContentText ==
  <<78, 111, 32, 99, 111, 110, 116, 101, 110, 116, 32, 99, 111, 117, 108, 100, 32, 98, 101,
    32, 101, 120, 116, 114, 97, 99, 116, 101, 100, 32, 102, 114, 111, 109, 32, 116, 104,
    105, 115, 32, 112, 97, 103, 101, 46>>

\* parse_wiki_page: html.text is what extract_clean_text collects from the
\* text elements of the document, html.text_anchors the anchors written out in
\* that text; the anchor elements of the document itself (html.anchors) are
\* not part of the text
parse_wiki_page(url, html) ==
  [title |-> html.title,
   url |-> url,
   content |-> IF html.text = <<>>
               THEN [text |-> NoContentText, anchors |-> {}]
               ELSE [text |-> html.text, anchors |-> html.text_anchors]]

\* the guard at the head of scrape_page_recursive
SkipsEvenVisited(url, depth, visited) == depth > max_depth

Skips(url, depth, visited) == depth > max_depth \/ url \in visited

\* links.iter().take(5): whether one more link is taken after `taken' links
TakesAnyNumber(taken) == TRUE

Takes(taken) == taken < MaxLinksPerPage

\* the link as the URL to recurse into, or None for `continue'
full_url(link) ==
  IF link.form \in {"wiki", "index", "other"} THEN Some(WithBaseUrl(link))
  ELSE IF link.form \in {"abs", "ext"} THEN Some(link)
  ELSE None

\* the Err arm of the match on scrape_single_page
OnScrapeErrorCountsPage(status) ==
  [status EXCEPT !.errors_encountered = @ + 1, !.pages_scraped = @ + 1]

on_scrape_error(status) == [status EXCEPT !.errors_encountered = @ + 1]

\* the head of update_content
BeginUpdateKeepsCounters(status) == [status EXCEPT !.is_updating = TRUE]

begin_update(status) ==
  [status EXCEPT !.is_updating = TRUE, !.pages_scraped = 0, !.errors_encountered = 0]

\* the tail of update_content; now stands for chrono::Utc::now()
EndUpdateStaysRunning(status, now) ==
  [status EXCEPT !.last_update = Some(now), !.total_pages = status.pages_scraped]

end_update(status, now) ==
  [status EXCEPT !.is_updating = FALSE, !.last_update = Some(now),
                 !.total_pages = status.pages_scraped]

SavePageContentWithoutService(has_service, chunks, db, page, resps, fault) ==
  [ok |-> TRUE, chunks |-> chunks, db |-> db, processed |-> FALSE]

\* save_page_content: process_wiki_page under the lock of the embedding service,
\* or nothing when no embedding service is set
save_page_content(has_service, chunks, db, page, resps, fault) ==
  IF has_service
  THEN With(process_wiki_page(chunks, db, page.title, page.url, page.content.text,
                              resps, fault), LAMBDA r :
         [ok |-> r.ok, chunks |-> r.chunks, db |-> r.db, processed |-> TRUE])
  ELSE [ok |-> TRUE, chunks |-> chunks, db |-> db, processed |-> FALSE]

(***************************************************************************)
(* State                                                                   *)
(***************************************************************************)
VARIABLES
  chunks,         \* EmbeddingService.chunks: the in-memory chunk cache
  db,             \* the records of the sled store behind EmbeddingService.vector_db
  last,           \* the last call on the EmbeddingService, with what it returned
  ops,            \* calls made on the EmbeddingService so far
  status,         \* WikiService.status
  visited_urls,   \* WikiService.visited_urls
  entry,          \* update_content: 0 when not running, else the entry point that is next
  stack,          \* the calls of scrape_page_recursive that are in progress, innermost last
  returned,       \* what update_content returned last
  runs,           \* calls of update_content so far
  fetches,        \* history: the calls of scrape_single_page
  followed,       \* history: the recursive calls made for the links of a page
  ingested,       \* history: the URLs of the pages process_wiki_page has returned for
  disk,           \* the directory of the durable store: whether it exists, its records, its lock
  boot,           \* the construction of the EmbeddingServices at startup
  locks,          \* the task that holds each tokio Mutex, or "none"
  tasks           \* the crawl task and the chat task: where each is in its call, and
                  \* (history) the contents of the store between the batches so far

serviceVars == <<chunks, db>>
callVars == <<last, ops>>
crawlVars == <<status, visited_urls, entry, stack, returned, runs, fetches, followed,
               ingested>>
bootVars == <<disk, boot>>
taskVars == <<locks, tasks>>
vars == <<chunks, db, last, ops, status, visited_urls, entry, stack, returned, runs,
          fetches, followed, ingested, disk, boot, locks, tasks>>

(***************************************************************************)
(* Inputs of the ingestion specification                                   *)
(***************************************************************************)
\* "clay", "tin.", "ore"
WordClay == <<99, 108, 97, 121>>
WordTin == <<116, 105, 110, 46>>
WordOre == <<111, 114, 101>>

\* pages handed to process_wiki_page.  "Clay" and "Clay!" sanitize to the same
\* title; the third content is shorter than MinChunkLen; the fourth has blank ends
IngestPages ==
  { [title |-> <<67, 108, 97, 121>>, url |-> "u/Clay", content |-> Repeat(WordClay, 11)],
    [title |-> <<67, 108, 97, 121, 33>>, url |-> "u/Clay!", content |-> Repeat(WordTin, 12)],
    [title |-> <<79, 114, 101>>, url |-> "u/Ore", content |-> Repeat(WordOre, 5)],
    [title |-> <<79, 114, 101>>, url |-> "u/Ore",
     content |-> <<32, 10>> \o Repeat(WordOre, 13) \o <<10>>] }

\* answers of the embedding endpoint
Failure(kind) == [kind |-> kind]
Array(len, nz, bad) == [kind |-> "array", arr |-> [len |-> len, nz |-> nz, bad |-> bad]]

Array384 == Array(384, (5 :> 600 @@ 7 :> 800), {})
Array768 == Array(768, (5 :> 600 @@ 700 :> 800), {})

FailureResponses ==
  { Failure("connect"), Failure("timeout"), Failure("status"), Failure("body"),
    Failure("missing"), Failure("not_array"),
    Array(0, <<>>, {}), Array(2, (0 :> 1000), {0, 1}) }

AllResponses == FailureResponses \cup {Array384, Array768, Array(4, (0 :> 600 @@ 2 :> 800), {1})}

IngestResponses == {Failure("connect"), Array384, Array768}

StorageFaults == {"none", "apply", "flush"}

Queries == {WordClay, Repeat(WordTin, 2)}
EmbedTexts == Queries \cup {Repeat(WordOre, 5)}
Limits == {0, 1, 3}

\* a store as an earlier run of the program left it
PreviousStore ==
  With(CHOOSE pg \in IngestPages : pg.url = "u/Clay", LAMBDA clay :
  With(CHOOSE pg \in IngestPages : pg.url = "u/Ore" /\ Len(pg.content) >= MinChunkLen,
       LAMBDA ore :
  With(process_wiki_page(<<>>, <<>>, clay.title, clay.url, clay.content,
                         [i \in {0} |-> Array384], "none"), LAMBDA first :
    process_wiki_page(<<>>, first.db, ore.title, ore.url, ore.content,
                      [i \in {0} |-> Array(384, (3 :> 1000), {})], "none").db)))

(***************************************************************************)
(* Operations on the EmbeddingService                                      *)
(***************************************************************************)
NoCall == [op |-> "none"]

\* startup is over and the EmbeddingService holds the durable store
Started ==
  /\ disk = [exists |-> TRUE, populated |-> (db # <<>>), lock |-> "held"]
  /\ boot = [service |-> 2, pc |-> "done", opens |-> 2, lock_failed |-> TRUE,
             removed |-> FALSE, recreated |-> FALSE, handles |-> <<"durable", "ephemeral">>,
             aborted |-> FALSE]

\* no command is running: both mutexes are free
\* OllamaConfig::default().model_name, "phi3:mini"
DefaultModel ==
  <<112, 104, 105, 51, 58, 109, 105, 110, 105>>

NoTasks ==
  /\ locks = [wiki_service |-> "none", embedding_service |-> "none", vector_db |-> "none",
              chat_service |-> "none", ollama_manager |-> "none"]
  /\ tasks = [crawl |-> [pc |-> "idle"], chat |-> [pc |-> "idle"],
              status |-> [pc |-> "idle"], stores |-> {db}, commands |-> <<>>,
              ollama |-> [process |-> None, children |-> <<>>, dropped |-> FALSE],
              session |-> [model_name |-> DefaultModel, conversation_history |-> <<>>,
                           calls |-> <<>>],
              mocked |-> {}]

\* WikiService::new
WikiServiceNew ==
  /\ status = [last_update |-> None, total_pages |-> 0, is_updating |-> FALSE,
               pages_scraped |-> 0, errors_encountered |-> 0]
  /\ visited_urls = {}
  /\ entry = 0
  /\ stack = <<>>
  /\ returned = None
  /\ runs = 0
  /\ fetches = {}
  /\ followed = {}
  /\ ingested = {}

InitIngest ==
  /\ chunks = <<>>
  /\ db \in {<<>>, PreviousStore}
  /\ last = NoCall
  /\ ops = 0
  /\ WikiServiceNew
  /\ NoTasks
  /\ Started

ChunkIndices(content) ==
  0..(Len(split_into_chunks(content, chunk_size, chunk_overlap).chunks) - 1)

ProcessWikiPageWith(faults, responses) ==
  /\ ops < MaxOps
  /\ \E pg \in IngestPages, fault \in faults :
       \E resps \in [ChunkIndices(pg.content) -> responses] :
         \E r \in {process_wiki_page(chunks, db, pg.title, pg.url, pg.content, resps, fault)} :
            /\ chunks' = r.chunks
            /\ db' = r.db
            /\ last' = [op |-> "process_wiki_page", page |-> pg, resps |-> resps,
                        fault |-> fault, ok |-> r.ok, embedded |-> r.embedded,
                        insert_ok |-> r.insert_ok, chunks_before |-> chunks]
  /\ ops' = ops + 1
  /\ UNCHANGED <<crawlVars, bootVars, taskVars>>

ProcessWikiPage == ProcessWikiPageWith(StorageFaults, IngestResponses)

SearchSimilar ==
  /\ ops < MaxOps
  /\ \E query \in Queries, limit \in Limits, resp \in IngestResponses,
        unreadable \in {{}, DOMAIN db} :
       \E r \in {search_similar(chunks, db, query, limit, resp, unreadable)} :
          last' = [op |-> "search_similar", query |-> query, limit |-> limit,
                   resp |-> resp, unreadable |-> unreadable,
                   ok |-> r.ok, results |-> r.results, from |-> r.from]
  /\ ops' = ops + 1
  /\ UNCHANGED <<chunks, db>>
  /\ UNCHANGED <<crawlVars, bootVars, taskVars>>

\* EmbeddingService::embed_text
EmbedText ==
  /\ ops < MaxOps
  /\ \E text \in EmbedTexts, resp \in AllResponses :
       \E r \in {create_embedding(text, resp)} :
          last' = [op |-> "embed_text", text |-> text, resp |-> resp,
                   ok |-> r.ok, vec |-> r.vec]
  /\ ops' = ops + 1
  /\ UNCHANGED <<chunks, db>>
  /\ UNCHANGED <<crawlVars, bootVars, taskVars>>

NextIngest == ProcessWikiPage \/ SearchSimilar \/ EmbedText

SpecIngest == InitIngest /\ [][NextIngest]_vars

(***************************************************************************)
(* Operations on the VectorDatabase                                        *)
(***************************************************************************)
Document(id, source_url, embedding) ==
  [id |-> id, content |-> WordOre, source_url |-> source_url, source_title |-> WordOre,
   embedding |-> embedding, metadata |-> ToJson([source_type |-> "wiki"])]

\* documents handed to the store: two of them carry the same id, two pairs the
\* same source
StoreDocuments ==
  { Document(<<97>>, "u/1", Vec(3, (0 :> 1000))),
    Document(<<98>>, "u/1", Vec(3, (0 :> 600 @@ 1 :> 800))),
    Document(<<99>>, "u/2", Vec(3, (1 :> 1000))),
    Document(<<97>>, "u/2", Vec(3, (2 :> 1000))) }

\* the batches of at most MaxBatch documents, no document twice in a batch
MaxBatch == 2
StoreBatches ==
  UNION { {batch \in [1..n -> StoreDocuments] :
             \A i, j \in 1..n : batch[i] = batch[j] => i = j} : n \in 0..MaxBatch }

StoreSources == {"u/1", "u/2", "u/3"}
StoreQueries == {Vec(3, (0 :> 1000)), Vec(3, (1 :> 700 @@ 2 :> 700)), Vec(4, (0 :> 1000))}

InitStore ==
  /\ chunks = <<>>
  /\ db \in {<<>>} \cup {BatchApplied(<<>>, batch) : batch \in [1..3 -> StoreDocuments]}
  /\ last = NoCall
  /\ ops = 0
  /\ WikiServiceNew
  /\ NoTasks
  /\ Started

InsertDocuments ==
  /\ ops < MaxOps
  /\ \E documents \in StoreBatches, fault \in StorageFaults :
       \E r \in {insert_documents(db, documents, fault)} :
          /\ db' = r.db
          /\ last' = [op |-> "insert_documents", documents |-> documents, fault |-> fault,
                      ok |-> r.ok, db_before |-> db]
  /\ ops' = ops + 1
  /\ UNCHANGED <<chunks, crawlVars, bootVars, taskVars>>

DeleteBySource ==
  /\ ops < MaxOps
  /\ \E source_url \in StoreSources, fault \in StorageFaults, unreadable \in SUBSET DOMAIN db :
       \E r \in {delete_by_source(db, source_url, fault, unreadable)} :
          /\ db' = r.db
          /\ last' = [op |-> "delete_by_source", source_url |-> source_url, fault |-> fault,
                      unreadable |-> unreadable, ok |-> r.ok, db_before |-> db]
  /\ ops' = ops + 1
  /\ UNCHANGED <<chunks, crawlVars, bootVars, taskVars>>

CountDocuments ==
  /\ ops < MaxOps
  /\ last' = [op |-> "count_documents", ok |-> TRUE, count |-> count_documents(db),
              db_before |-> db]
  /\ ops' = ops + 1
  /\ UNCHANGED <<chunks, db, crawlVars, bootVars, taskVars>>

SearchStore ==
  /\ ops < MaxOps
  /\ \E embedding \in StoreQueries, limit \in Limits, unreadable \in SUBSET DOMAIN db :
       \E r \in {db_search_similar(db, embedding, limit, unreadable)} :
          last' = [op |-> "db_search_similar", embedding |-> embedding, limit |-> limit,
                   unreadable |-> unreadable, ok |-> TRUE, results |-> r, db_before |-> db]
  /\ ops' = ops + 1
  /\ UNCHANGED <<chunks, db, crawlVars, bootVars, taskVars>>

NextStore == InsertDocuments \/ DeleteBySource \/ CountDocuments \/ SearchStore

SpecStore == InitStore /\ [][NextStore]_vars

(***************************************************************************)
(* Ingestion and search as concurrent tasks                                *)
(*                                                                         *)
(* update_wiki_content runs the crawl on one tokio task and send_message   *)
(* runs the chat on another.  Both reach the store through the one         *)
(* Arc<Mutex<EmbeddingService>> of the application and, inside it, through *)
(* the Arc<Mutex<VectorDatabase>>.  A task gives way at every .await; the  *)
(* scan of the store reads one record at a time from the live tree.        *)
(***************************************************************************)
MaxCalls == 3

FreeAlways(owner) == TRUE

\* tokio::sync::Mutex::lock().await resolves only while no task holds the mutex
Free(owner) == owner = "none"

\* sled's Iter::next: the least key of the tree, as it is now, above the last key yielded
NextKey(store, cursor) ==
  With({k \in DOMAIN store : cursor = None \/ BytesLess(cursor[1], k)}, LAMBDA above :
    IF above = {} THEN None
    ELSE Some(CHOOSE k \in above : \A other \in above \ {k} : BytesLess(k, other)))

ConcurrentPages == {pg \in IngestPages : Len(Trim(pg.content)) >= MinChunkLen}

\* the crawl has scraped a page and calls save_page_content
CrawlSavePage ==
  /\ ops < MaxCalls
  /\ tasks.crawl.pc = "idle"
  /\ \E pg \in ConcurrentPages :
       tasks' = [tasks EXCEPT !.crawl = [pc |-> "lock_service", page |-> pg]]
  /\ ops' = ops + 1
  /\ UNCHANGED <<chunks, db, last, locks, crawlVars, bootVars>>

\* save_page_content: embedding_service.lock().await
CrawlLockService ==
  /\ tasks.crawl.pc = "lock_service"
  /\ Free(locks.embedding_service)
  /\ tasks' = [tasks EXCEPT !.crawl.pc = "embed"]
  /\ locks' = [locks EXCEPT !.embedding_service = "crawl"]
  /\ UNCHANGED <<chunks, db, last, ops, crawlVars, bootVars>>

\* process_wiki_page up to the save: the chunks of the page are embedded and
\* self.chunks is extended with them
CrawlEmbed ==
  /\ tasks.crawl.pc = "embed"
  /\ \E pg \in {tasks.crawl.page} :
     \E parts \in {split_into_chunks(pg.content, chunk_size, chunk_overlap).chunks} :
     \E resps \in [0..(Len(parts) - 1) -> {Failure("connect")}] :
     \E batch_chunks \in {EmbedChunks(pg.title, pg.url, parts, 0, resps)} :
       /\ chunks' = chunks \o batch_chunks
       /\ tasks' = [tasks EXCEPT !.crawl =
                      [pc |-> IF chunks' = <<>> THEN "return" ELSE "lock_db", page |-> pg]]
  /\ UNCHANGED <<db, last, ops, locks, crawlVars, bootVars>>

\* process_wiki_page: self.vector_db.lock().await
CrawlLockDb ==
  /\ tasks.crawl.pc = "lock_db"
  /\ Free(locks.vector_db)
  /\ locks' = [locks EXCEPT !.vector_db = "crawl"]
  /\ tasks' = [tasks EXCEPT !.crawl.pc = "insert"]
  /\ UNCHANGED <<chunks, db, last, ops, crawlVars, bootVars>>

\* process_wiki_page: db.insert_documents(documents), then the guard is dropped
CrawlInsert ==
  /\ tasks.crawl.pc = "insert"
  /\ \E fault \in StorageFaults :
     \E r \in {insert_documents(db, Documents(chunks), fault)} :
       /\ db' = r.db
       /\ tasks' = [tasks EXCEPT !.crawl.pc = "return", !.stores = @ \cup {r.db}]
  /\ locks' = [locks EXCEPT !.vector_db = "none"]
  /\ UNCHANGED <<chunks, last, ops, crawlVars, bootVars>>

\* save_page_content returns: the guard of the EmbeddingService is dropped
CrawlReturn ==
  /\ tasks.crawl.pc = "return"
  /\ locks' = [locks EXCEPT !.embedding_service = "none"]
  /\ tasks' = [tasks EXCEPT !.crawl = [pc |-> "idle"]]
  /\ UNCHANGED <<chunks, db, last, ops, crawlVars, bootVars>>

\* send_message calls process_message with the user's message
ChatProcessMessage ==
  /\ ops < MaxCalls
  /\ tasks.chat.pc = "idle"
  /\ \E query \in Queries :
       tasks' = [tasks EXCEPT !.chat = [pc |-> "lock_service", query |-> query]]
  /\ ops' = ops + 1
  /\ UNCHANGED <<chunks, db, last, locks, crawlVars, bootVars>>

\* process_message: self.embedding_service.lock().await
ChatLockService ==
  /\ tasks.chat.pc = "lock_service"
  /\ Free(locks.embedding_service)
  /\ tasks' = [tasks EXCEPT !.chat.pc = "lock_db"]
  /\ locks' = [locks EXCEPT !.embedding_service = "chat"]
  /\ UNCHANGED <<chunks, db, last, ops, crawlVars, bootVars>>

\* search_similar: the query is embedded, then self.vector_db.lock().await;
\* db.search_similar starts its scan with self.db.iter()
ChatLockDb ==
  /\ tasks.chat.pc = "lock_db"
  /\ Free(locks.vector_db)
  /\ locks' = [locks EXCEPT !.vector_db = "chat"]
  /\ tasks' = [tasks EXCEPT !.chat = [pc |-> "scan", query |-> tasks.chat.query,
                                      cursor |-> None, seen |-> <<>>, started |-> db,
                                      waiting |-> tasks.crawl.pc # "idle"]]
  /\ UNCHANGED <<chunks, db, last, ops, crawlVars, bootVars>>

\* db.search_similar: one turn of `for result in self.db.iter()'
ChatScan ==
  /\ tasks.chat.pc = "scan"
  /\ \E next \in {NextKey(db, tasks.chat.cursor)} :
       /\ next # None
       /\ tasks' = [tasks EXCEPT !.chat.cursor = next,
                                 !.chat.seen = BatchApplied(@, <<db[next[1]]>>)]
  /\ UNCHANGED <<chunks, db, last, ops, locks, crawlVars, bootVars>>

\* the scan is over: the records read are scored, sorted and cut, search_similar
\* returns, and process_message drops both guards
ChatReturn ==
  /\ tasks.chat.pc = "scan"
  /\ NextKey(db, tasks.chat.cursor) = None
  /\ \E r \in {search_similar(chunks, tasks.chat.seen, tasks.chat.query, 5,
                              Failure("connect"), {})} :
       last' = [op |-> "process_message", query |-> tasks.chat.query,
                seen |-> tasks.chat.seen, started |-> tasks.chat.started,
                waiting |-> tasks.chat.waiting,
                ok |-> r.ok, results |-> r.results, from |-> r.from]
  /\ locks' = [locks EXCEPT !.embedding_service = "none", !.vector_db = "none"]
  /\ tasks' = [tasks EXCEPT !.chat = [pc |-> "idle"]]
  /\ UNCHANGED <<chunks, db, ops, crawlVars, bootVars>>

NextConcurrent ==
  \/ CrawlSavePage \/ CrawlLockService \/ CrawlEmbed \/ CrawlLockDb \/ CrawlInsert
  \/ CrawlReturn
  \/ ChatProcessMessage \/ ChatLockService \/ ChatLockDb \/ ChatScan \/ ChatReturn

SpecConcurrent == InitIngest /\ [][NextConcurrent]_vars

(***************************************************************************)
(* The chunker and the configuration it takes its window from              *)
(*                                                                         *)
(* split_into_chunks is followed one turn of its while loop at a time;     *)
(* `last' holds the locals of the call.                                    *)
(***************************************************************************)
MaxWords == 9

\* the words "1", "2", ..., "n": no two alike
Numbered(n) == [i \in 1..n |-> Decimal(i)]

RECURSIVE JoinWith(_, _)
JoinWith(ws, sep) ==
  IF ws = <<>> THEN <<>>
  ELSE IF Len(ws) = 1 THEN ws[1]
  ELSE ws[1] \o sep \o JoinWith(Tail(ws), sep)

\* page texts of up to MaxWords words: single spaces, white space around the
\* text, and runs of white space between the words
ChunkContents ==
  UNION { { JoinWith(Numbered(n), <<32>>),
            <<32, 10>> \o JoinWith(Numbered(n), <<32>>) \o <<10>>,
            JoinWith(Numbered(n), <<32, 9, 32>>) \o <<32>> } : n \in 0..MaxWords }

\* (chunk_size, chunk_overlap) of an EmbeddingConfig: small windows, and the
\* window of EmbeddingConfig::default
ChunkConfigs ==
  {c \in (1..4) \X (0..5) : c[2] <= c[1] + 1} \cup {<<chunk_size, chunk_overlap>>}

WindowRestarts(end, overlap) == 0

WindowSkipsOverlap(end, overlap) == end

\* start = end - overlap
NextStart(end, overlap) == end - overlap

\* "This is a test sentence. ".repeat(100), the content of the chunking tests
TestSentence ==
  <<84, 104, 105, 115, 32, 105, 115, 32, 97, 32, 116, 101, 115, 116, 32,
    115, 101, 110, 116, 101, 110, 99, 101, 46, 32>>

RECURSIVE RepeatStr(_, _)
RepeatStr(str, n) == IF n = 0 THEN <<>> ELSE str \o RepeatStr(str, n - 1)

TestRepetitions == 100
TestContent == RepeatStr(TestSentence, TestRepetitions)

\* the calls of split_into_chunks: every text under every window, and the test
\* content under the window of EmbeddingConfig::default; each with the words
\* that content.split_whitespace() yields
ChunkInputs ==
  { <<input[1], input[2], SplitWhitespace(input[1])>> :
      input \in (ChunkContents \X ChunkConfigs)
                  \cup {<<TestContent, <<chunk_size, chunk_overlap>>>>} }

\* split_into_chunks, up to the while loop
SplitIntoChunks ==
  /\ ops < MaxOps
  /\ last.op = "split_into_chunks" => last.pc # "loop"
  /\ \E input \in ChunkInputs :
     \E content \in {input[1]}, c \in {input[2]}, words \in {input[3]} :
       last' = [op |-> "split_into_chunks", content |-> content,
                chunk_size |-> c[1], overlap |-> c[2], words |-> words, start |-> 0,
                chunks |-> IF Len(words) <= c[1] THEN <<content>> ELSE <<>>,
                pc |-> IF Len(words) <= c[1] THEN "done" ELSE "loop",
                turns |-> 0]
  /\ ops' = ops + 1
  /\ UNCHANGED <<chunks, db, crawlVars, bootVars, taskVars>>

\* one turn of `while start < words.len()'.  When end - overlap is below zero
\* the subtraction panics where overflow is checked and wraps where it is not:
\* the wrapped start is above every word count and the loop ends.  When the
\* start does not move, every later turn repeats this one and the loop never ends.
ChunkIteration ==
  /\ last.op = "split_into_chunks"
  /\ last.pc = "loop"
  /\ \E end \in {Min(last.start + last.chunk_size, Len(last.words))} :
     \E chunk \in {JoinSpace(SubSeq(last.words, last.start + 1, end))} :
     \E pushed \in {IF Trim(chunk) # <<>> THEN Append(last.chunks, chunk) ELSE last.chunks} :
     \E start \in {NextStart(end, last.overlap)} :
     \E pc \in IF end >= Len(last.words) THEN {"done"}
               ELSE IF start < 0 THEN {"panicked", "done"}
               ELSE IF start = last.start THEN {"diverged"}
               ELSE IF start < Len(last.words) THEN {"loop"} ELSE {"done"} :
       last' = [last EXCEPT !.chunks = pushed,
                            !.start = IF end >= Len(last.words) \/ start < 0 THEN @ ELSE start,
                            !.pc = pc,
                            !.turns = @ + 1]
  /\ UNCHANGED <<chunks, db, ops, crawlVars, bootVars, taskVars>>

\* the config.json that AppConfig::load finds: absent, unreadable, not an
\* AppConfig in JSON, or an AppConfig with these embedding settings
ConfigFiles ==
  {[state |-> st] : st \in {"absent", "unreadable", "malformed"}}
    \cup {[state |-> "config", chunk_size |-> c[1], chunk_overlap |-> c[2]] : c \in ChunkConfigs}

\* AppConfig::load; `saved' tells whether the defaults could be written
load(file, saved) ==
  IF file.state = "config"
  THEN [ok |-> TRUE, chunk_size |-> file.chunk_size, chunk_overlap |-> file.chunk_overlap]
  ELSE IF file.state = "absent" /\ saved
  THEN [ok |-> TRUE, chunk_size |-> chunk_size, chunk_overlap |-> chunk_overlap]
  ELSE [ok |-> FALSE]

LoadConfig ==
  /\ ops < MaxOps
  /\ last.op = "split_into_chunks" => last.pc # "loop"
  /\ \E file \in ConfigFiles, saved \in BOOLEAN :
       last' = [op |-> "load", file |-> file, saved |-> saved, config |-> load(file, saved)]
  /\ ops' = ops + 1
  /\ UNCHANGED <<chunks, db, crawlVars, bootVars, taskVars>>

NextChunk == SplitIntoChunks \/ ChunkIteration \/ LoadConfig

SpecChunk == InitIngest /\ [][NextChunk]_vars /\ WF_vars(ChunkIteration)

(***************************************************************************)
(* The two copies of cosine_similarity                                     *)
(***************************************************************************)
\* vectors of three components and others: the zero vector, unit vectors,
\* vectors at right angles, vectors with negative components, vectors of
\* other lengths
CosineVectors ==
  { Vec(3, <<>>), Vec(3, (0 :> 1000)), Vec(3, (1 :> 1000)), Vec(3, (0 :> 707 @@ 1 :> 707)),
    Vec(3, (0 :> 600 @@ 1 :> 800)), Vec(3, (0 :> 800 @@ 1 :> -600)),
    Vec(3, (0 :> 300 @@ 1 :> 300 @@ 2 :> 300)), Vec(3, (0 :> 1000 @@ 1 :> 1000)),
    Vec(3, (0 :> -2000)), Vec(4, (0 :> 1000)), Vec(4, <<>>), Vec(0, <<>>) }

\* cosine_similarity(vec_a, vec_b) of the EmbeddingService, the same call with
\* the arguments exchanged, and the call on the VectorDatabase
CosineSimilarityCall ==
  /\ ops < MaxOps
  /\ \E vec_a \in CosineVectors, vec_b \in CosineVectors :
       last' = [op |-> "cosine_similarity", vec_a |-> vec_a, vec_b |-> vec_b,
                similarity |-> CosineSimilarity(vec_a, vec_b),
                exchanged |-> CosineSimilarity(vec_b, vec_a),
                db_similarity |-> db_cosine_similarity(vec_a, vec_b)]
  /\ ops' = ops + 1
  /\ UNCHANGED <<chunks, db, crawlVars, bootVars, taskVars>>

NextCosine == CosineSimilarityCall

SpecCosine == InitIngest /\ [][NextCosine]_vars

(***************************************************************************)
(* Links as strings (WikiService::extract_wiki_links)                      *)
(*                                                                         *)
(* The hrefs of the anchors of a document as the byte strings the code     *)
(* tests with starts_with and contains.                                    *)
(***************************************************************************)
\* str::starts_with
StartsWith(s, prefix) ==
  Len(prefix) <= Len(s) /\ SubSeq(s, 1, Len(prefix)) = prefix

\* str::contains
Contains(s, part) ==
  \E i \in 1..(Len(s) - Len(part) + 1) : SubSeq(s, i, i + Len(part) - 1) = part

\* "/wiki/"
WikiPrefix ==
  <<47, 119, 105, 107, 105, 47>>

\* "/index.php?title="
IndexPrefix ==
  <<47, 105, 110, 100, 101, 120, 46, 112, 104, 112, 63, 116, 105, 116, 108, 101, 61>>

\* "title="
TitleParam ==
  <<116, 105, 116, 108, 101, 61>>

\* "http"
HttpPrefix ==
  <<104, 116, 116, 112>>

\* "wiki.vintagestory.at"
WikiHost ==
  <<119, 105, 107, 105, 46, 118, 105, 110, 116, 97, 103, 101, 115, 116, 111, 114, 121,
  46, 97, 116>>

\* "Special:"
SpecialNs ==
  <<83, 112, 101, 99, 105, 97, 108, 58>>

\* "File:"
FileNs ==
  <<70, 105, 108, 101, 58>>

\* "Category:"
CategoryNs ==
  <<67, 97, 116, 101, 103, 111, 114, 121, 58>>

\* "#"
Hash ==
  <<35>>

\* "/"
Slash ==
  <<47>>

\* "https://wiki.vintagestory.at"
base_url ==
  <<104, 116, 116, 112, 115, 58, 47, 47, 119, 105, 107, 105, 46, 118, 105, 110, 116, 97,
  103, 101, 115, 116, 111, 114, 121, 46, 97, 116>>

\* the three selectors: a[href^='/wiki/'], a[href^='/index.php?title='],
\* a[href*='title=']
MatchesSelectors(href) ==
  \/ StartsWith(href, WikiPrefix)
  \/ StartsWith(href, IndexPrefix)
  \/ Contains(href, TitleParam)

SkipsOnlyExternal(href) ==
  StartsWith(href, HttpPrefix) /\ ~Contains(href, WikiHost)

\* the three `continue's of extract_wiki_links: external links, special pages
\* and files, anchor links
SkipsHref(href) ==
  \/ StartsWith(href, HttpPrefix) /\ ~Contains(href, WikiHost)
  \/ Contains(href, SpecialNs) \/ Contains(href, FileNs) \/ Contains(href, CategoryNs)
  \/ Contains(href, Hash)

NormalizedLinkKeepsHref(href) == href

\* normalized_link: an old-style link is rewritten to the new format
NormalizedLink(href) ==
  IF StartsWith(href, WikiPrefix)
  THEN IndexPrefix \o SubSeq(href, Len(WikiPrefix) + 1, Len(href))
  ELSE href

\* extract_wiki_links on a document whose anchors have these hrefs: the set
\* the HashSet holds
ExtractWikiLinks(hrefs) ==
  {NormalizedLink(href) : href \in {h \in hrefs : MatchesSelectors(h) /\ ~SkipsHref(h)}}

\* full_url in scrape_page_recursive, or None for `continue'
FullUrl(link) ==
  IF StartsWith(link, Slash) THEN Some(base_url \o link)
  ELSE IF StartsWith(link, HttpPrefix) THEN Some(link)
  ELSE None

\* the hrefs of test_extract_wiki_links
\* "/wiki/Tools"
HrefTools ==
  <<47, 119, 105, 107, 105, 47, 84, 111, 111, 108, 115>>
\* "/wiki/Crafting"
HrefCrafting ==
  <<47, 119, 105, 107, 105, 47, 67, 114, 97, 102, 116, 105, 110, 103>>
\* "/wiki/File:Example.png"
HrefFile ==
  <<47, 119, 105, 107, 105, 47, 70, 105, 108, 101, 58, 69, 120, 97, 109, 112, 108, 101,
  46, 112, 110, 103>>
\* "/wiki/Special:RecentChanges"
HrefSpecial ==
  <<47, 119, 105, 107, 105, 47, 83, 112, 101, 99, 105, 97, 108, 58, 82, 101, 99, 101,
  110, 116, 67, 104, 97, 110, 103, 101, 115>>
\* "https://external.com"
HrefExternal ==
  <<104, 116, 116, 112, 115, 58, 47, 47, 101, 120, 116, 101, 114, 110, 97, 108, 46, 99,
  111, 109>>
\* "/wiki/Items#section"
HrefAnchor ==
  <<47, 119, 105, 107, 105, 47, 73, 116, 101, 109, 115, 35, 115, 101, 99, 116, 105, 111,
  110>>

\* hrefs of the other forms the selectors and the filters tell apart
\* "/index.php?title=Copper"
HrefIndex ==
  <<47, 105, 110, 100, 101, 120, 46, 112, 104, 112, 63, 116, 105, 116, 108, 101, 61, 67,
  111, 112, 112, 101, 114>>
\* "/index.php?title=Category:Metals"
HrefIndexCategory ==
  <<47, 105, 110, 100, 101, 120, 46, 112, 104, 112, 63, 116, 105, 116, 108, 101, 61, 67,
  97, 116, 101, 103, 111, 114, 121, 58, 77, 101, 116, 97, 108, 115>>
\* "/index.php?title=Copper#Uses"
HrefIndexAnchor ==
  <<47, 105, 110, 100, 101, 120, 46, 112, 104, 112, 63, 116, 105, 116, 108, 101, 61, 67,
  111, 112, 112, 101, 114, 35, 85, 115, 101, 115>>
\* "https://wiki.vintagestory.at/index.php?title=Tin"
HrefAbsolute ==
  <<104, 116, 116, 112, 115, 58, 47, 47, 119, 105, 107, 105, 46, 118, 105, 110, 116, 97,
  103, 101, 115, 116, 111, 114, 121, 46, 97, 116, 47, 105, 110, 100, 101, 120, 46, 112,
  104, 112, 63, 116, 105, 116, 108, 101, 61, 84, 105, 110>>
\* "https://wiki.vintagestory.at/index.php?title=Special:Search"
HrefAbsoluteSpecial ==
  <<104, 116, 116, 112, 115, 58, 47, 47, 119, 105, 107, 105, 46, 118, 105, 110, 116, 97,
  103, 101, 115, 116, 111, 114, 121, 46, 97, 116, 47, 105, 110, 100, 101, 120, 46, 112,
  104, 112, 63, 116, 105, 116, 108, 101, 61, 83, 112, 101, 99, 105, 97, 108, 58, 83,
  101, 97, 114, 99, 104>>
\* "https://example.org/?title=Lead"
HrefExternalTitle ==
  <<104, 116, 116, 112, 115, 58, 47, 47, 101, 120, 97, 109, 112, 108, 101, 46, 111, 114,
  103, 47, 63, 116, 105, 116, 108, 101, 61, 76, 101, 97, 100>>
\* "index.php?title=Ore"
HrefRelative ==
  <<105, 110, 100, 101, 120, 46, 112, 104, 112, 63, 116, 105, 116, 108, 101, 61, 79,
  114, 101>>
\* "/about.html"
HrefOther ==
  <<47, 97, 98, 111, 117, 116, 46, 104, 116, 109, 108>>
\* "#top"
HrefBareAnchor ==
  <<35, 116, 111, 112>>

\* the document of test_extract_wiki_links
TestDocument ==
  {HrefTools, HrefCrafting, HrefFile, HrefSpecial, HrefExternal, HrefAnchor}

DocumentHrefs ==
  TestDocument \cup {HrefIndex, HrefIndexCategory, HrefIndexAnchor, HrefAbsolute,
                     HrefAbsoluteSpecial, HrefExternalTitle, HrefRelative, HrefOther,
                     HrefBareAnchor}

\* anchors in a document besides the test's
MaxAnchors == 2

AnchorSets ==
  {TestDocument} \cup {hrefs \in SUBSET DocumentHrefs : Cardinality(hrefs) <= MaxAnchors}

\* extract_wiki_links(content), and the URL scrape_page_recursive makes of each
\* link it returned
ExtractWikiLinksCall ==
  /\ ops < MaxOps
  /\ \E hrefs \in AnchorSets :
       \E links \in {ExtractWikiLinks(hrefs)} :
         last' = [op |-> "extract_wiki_links", hrefs |-> hrefs, links |-> links,
                  urls |-> {FullUrl(link)[1] : link \in {l \in links : FullUrl(l) # None}}]
  /\ ops' = ops + 1
  /\ UNCHANGED <<chunks, db, crawlVars, bootVars, taskVars>>

NextLinks == ExtractWikiLinksCall

SpecLinks == InitIngest /\ [][NextLinks]_vars

(***************************************************************************)
(* Generation (OllamaManager::generate_response)                           *)
(***************************************************************************)
\* what the generation endpoint can answer to one request: no answer, a status
\* outside 2xx with a body, a 2xx whose body is not JSON, or a 2xx with a JSON
\* body.  The `error' field of the body is absent, a string, or an object with
\* a message; the `response' field is absent or a string.
ErrorFields ==
  { [type |-> "absent"], [type |-> "string", value |-> "model not found"],
    [type |-> "object", message |-> "model not found"] }

ResponseFields ==
  { [type |-> "absent"], [type |-> "string", value |-> ""],
    [type |-> "string", value |-> "No response generated"],
    [type |-> "string", value |-> "Clay is dug with a shovel."] }

GenerateAnswers ==
  { [kind |-> "send_failed"], [kind |-> "status", body |-> Some("model not found")],
    [kind |-> "status", body |-> None], [kind |-> "not_json"] }
    \cup { [kind |-> "json", error |-> e, response |-> r] :
             e \in ErrorFields, r \in ResponseFields }

Prompts == {"What is clay?", "How do I smelt copper?", ""}

OllamaError(cause, carried) == [ok |-> FALSE, cause |-> cause, carried |-> carried]

GenerateResponseIgnoresErrorField(resp) ==
  IF resp.kind = "send_failed" THEN OllamaError("send", None)
  ELSE IF resp.kind = "status" THEN OllamaError("api", resp.body)
  ELSE IF resp.kind = "not_json" THEN OllamaError("parse", None)
  ELSE With(IF resp.response.type = "string" THEN resp.response.value
            ELSE "No response generated", LAMBDA response_text :
         IF response_text = "" \/ response_text = "No response generated"
         THEN OllamaError("empty", None)
         ELSE [ok |-> TRUE, text |-> response_text])

\* generate_response, from the answer to its request on: the error it returns
\* carries the text the provider sent, when it formats one into its message
generate_response(resp) ==
  IF resp.kind = "send_failed" THEN OllamaError("send", None)
  ELSE IF resp.kind = "status"
  THEN OllamaError("api", Some(IF resp.body = None THEN "Unknown error" ELSE resp.body[1]))
  ELSE IF resp.kind = "not_json" THEN OllamaError("parse", None)
  ELSE IF resp.error.type = "string" THEN OllamaError("returned", Some(resp.error.value))
  ELSE With(IF resp.response.type = "string" THEN resp.response.value
            ELSE "No response generated", LAMBDA response_text :
         IF response_text = "" \/ response_text = "No response generated"
         THEN OllamaError("empty", None)
         ELSE [ok |-> TRUE, text |-> response_text])

\* one call of generate_response: the requests it sends and what it returns
GenerateResponse ==
  /\ ops < MaxOps
  /\ \E prompt \in Prompts, resp \in GenerateAnswers :
       last' = [op |-> "generate_response", prompt |-> prompt, resp |-> resp,
                requests |-> <<[path |-> "/api/generate", prompt |-> prompt,
                                stream |-> FALSE]>>,
                result |-> generate_response(resp)]
  /\ ops' = ops + 1
  /\ UNCHANGED <<chunks, db, crawlVars, bootVars, taskVars>>

NextGenerate == GenerateResponse

SpecGenerate == InitIngest /\ [][NextGenerate]_vars

(***************************************************************************)
(* The wiki the crawler runs against                                       *)
(***************************************************************************)
\* the entry points of update_content, in order
entry_points ==
  <<Link("index", "Main_Page"), Link("index", "Blocks"), Link("index", "Items"),
    Link("index", "Crafting"), Link("index", "Getting_Started"), Link("index", "Knapping"),
    Link("index", "Clay_forming")>>

ShortText == Repeat(WordOre, 5)
LongText(word) == Repeat(word, 13)

Html(title, text, text_anchors, anchors) ==
  [title |-> title, text |-> text, text_anchors |-> text_anchors, anchors |-> anchors]

\* the documents of the wiki, by page name.  Knapping does not exist; the text
\* of Clay_forming is empty; Crafting writes out more links than are taken;
\* Main_Page, Copper, Ore, Tin, Lead is a chain of links longer than max_depth
Site ==
  [Main_Page |->
     Html(<<77, 97, 105, 110, 32, 80, 97, 103, 101>>, LongText(WordClay),
          {Link("wiki", "Copper"), Link("index", "Blocks"),
           Href("wiki", "Special", "Search", FALSE), Href("wiki", "", "Copper", TRUE),
           Link("ext", "Copper"), Link("other", "about")},
          {Link("wiki", "Items"), Link("wiki", "Lead")}),
   Blocks |-> Html(<<66, 108, 111, 99, 107, 115>>, ShortText, {}, {Link("wiki", "Lead")}),
   Items |->
     Html(<<73, 116, 101, 109, 115>>, ShortText,
          {Link("abs", "Main_Page"), Link("rel", "Tin")}, {}),
   Crafting |->
     Html(<<67, 114, 97, 102, 116, 105, 110, 103>>, ShortText,
          {Link("index", "Main_Page"), Link("index", "Blocks"), Link("wiki", "Items"),
           Link("index", "Crafting"), Link("index", "Getting_Started"),
           Link("index", "Knapping"), Link("rel", "Anvil")}, {}),
   Getting_Started |->
     Html(<<71, 101, 116, 116, 105, 110, 103, 32, 83, 116, 97, 114, 116, 101, 100>>,
          LongText(WordTin), {}, {}),
   Clay_forming |->
     Html(<<67, 108, 97, 121, 32, 102, 111, 114, 109, 105, 110, 103>>, <<>>, {},
          {Link("wiki", "Lead")}),
   Copper |-> Html(<<67, 111, 112, 112, 101, 114>>, ShortText, {Link("wiki", "Ore")}, {}),
   Ore |->
     Html(<<79, 114, 101>>, ShortText,
          {Link("wiki", "Tin"), Href("wiki", "File", "Ore.png", FALSE),
           Href("index", "Category", "Metals", FALSE)}, {}),
   Tin |-> Html(<<84, 105, 110>>, LongText(WordTin), {Link("wiki", "Lead")}, {}),
   Lead |-> Html(<<76, 101, 97, 100>>, ShortText, {}, {})]

\* the pages whose request can also fail (HTTP 500, timeout); the others answer
Unreliable == {"Main_Page", "Blocks", "Copper", "Getting_Started"}

\* what scrape_single_page can return for a URL
Responses(url) ==
  IF url.form = "abs" /\ url.ns = "" /\ ~url.frag /\ url.page \in DOMAIN Site
  THEN {[ok |-> TRUE, page |-> parse_wiki_page(url, Site[url.page])]}
         \cup (IF url.page \in Unreliable THEN {[ok |-> FALSE]} ELSE {})
  ELSE {[ok |-> FALSE]}

\* during a crawl the embedding provider is down or answers, and the store
\* accepts the batch or refuses it
CrawlResponses == {Failure("connect"), Array384}
CrawlFaults == {"none", "apply"}

(***************************************************************************)
(* Crawl (WikiService::update_content)                                     *)
(***************************************************************************)
Frame(url, depth, parent) ==
  [url |-> url, depth |-> depth, pc |-> "enter", parent |-> parent,
   page |-> None, links |-> {}, taken |-> 0]

Top == stack[Len(stack)]
Pop == SubSeq(stack, 1, Len(stack) - 1)
SetTop(frame) == [stack EXCEPT ![Len(stack)] = frame]

\* the crawler as WikiService::new leaves it, wired to a new EmbeddingService
Init ==
  /\ chunks = <<>>
  /\ db = <<>>
  /\ last = NoCall
  /\ ops = 0
  /\ WikiServiceNew
  /\ NoTasks
  /\ Started

\* update_content up to its loop
UpdateContent ==
  /\ entry = 0
  /\ runs < MaxRuns
  /\ status' = begin_update(status)
  /\ entry' = 1
  /\ runs' = runs + 1
  /\ UNCHANGED <<visited_urls, stack, returned, fetches, followed, ingested,
                 serviceVars, callVars, bootVars, taskVars>>

\* one turn of the loop over the entry points: the call of scrape_page_recursive.
\* The call returns Ok whatever happens below it, because save_page_content
\* does: the Err arm of the loop is never taken
ScrapeEntryPoint ==
  /\ entry \in 1..Len(entry_points)
  /\ stack = <<>>
  /\ stack' = <<Frame(WithBaseUrl(entry_points[entry]), 0, None)>>
  /\ entry' = entry + 1
  /\ UNCHANGED <<status, visited_urls, returned, runs, fetches, followed, ingested,
                 serviceVars, callVars, bootVars, taskVars>>

\* scrape_page_recursive up to the request
EnterPage ==
  /\ stack # <<>>
  /\ Top.pc = "enter"
  /\ IF Skips(Top.url, Top.depth, visited_urls)
     THEN stack' = Pop /\ UNCHANGED visited_urls
     ELSE /\ visited_urls' = visited_urls \cup {Top.url}
          /\ stack' = SetTop([Top EXCEPT !.pc = "fetch"])
  /\ UNCHANGED <<status, entry, returned, runs, fetches, followed, ingested,
                 serviceVars, callVars, bootVars, taskVars>>

\* scrape_single_page and the match on its result
FetchPage ==
  /\ stack # <<>>
  /\ Top.pc = "fetch"
  /\ \E response \in Responses(Top.url) :
       /\ fetches' = fetches \cup
            {[url |-> Top.url, depth |-> Top.depth, parent |-> Top.parent,
              ok |-> response.ok, run |-> runs,
              parent_ingested |-> (Top.parent = None \/ Top.parent[1] \in ingested),
              parent_failures |-> Cardinality({f \in fetches : f.parent = Top.parent /\ ~f.ok
                                                                 /\ f.run = runs}),
              nth |-> 1 + Cardinality({f \in fetches : f.url = Top.url})]}
       /\ IF response.ok
          THEN /\ status' = [status EXCEPT !.pages_scraped = @ + 1]
               /\ stack' = SetTop([Top EXCEPT !.pc = "save", !.page = Some(response.page)])
          ELSE /\ status' = on_scrape_error(status)
               /\ stack' = Pop
  /\ UNCHANGED <<visited_urls, entry, returned, runs, followed, ingested,
                 serviceVars, callVars, bootVars, taskVars>>

\* scrape_page_recursive after save_page_content: the loop over the links of
\* the page when the page is not at max_depth, else the return
AfterSave ==
  IF Top.depth < max_depth
  THEN SetTop([Top EXCEPT !.pc = "links", !.page = None,
                          !.links = extract_wiki_links(Top.page[1].content)])
  ELSE Pop

\* save_page_content, then extract_wiki_links when the page is not at max_depth
SavePageWith(responses, faults) ==
  /\ stack # <<>>
  /\ Top.pc = "save"
  /\ \E resp \in responses, fault \in faults :
       \E r \in {save_page_content(TRUE, chunks, db, Top.page[1],
                                    [i \in ChunkIndices(Top.page[1].content.text) |-> resp],
                                    fault)} :
          /\ chunks' = r.chunks
          /\ db' = r.db
          /\ ingested' = IF r.processed THEN ingested \cup {Top.url} ELSE ingested
          /\ stack' = AfterSave
  /\ UNCHANGED <<status, visited_urls, entry, returned, runs, fetches, followed, callVars, bootVars, taskVars>>

SavePage == SavePageWith(CrawlResponses, CrawlFaults)

\* one turn of the loop over the links of a page, which come in any order
FollowLink ==
  /\ stack # <<>>
  /\ Top.pc = "links"
  /\ Top.links # {}
  /\ Takes(Top.taken)
  /\ \E link \in Top.links :
       \E rest \in {[Top EXCEPT !.links = @ \ {link}, !.taken = @ + 1]} :
          IF full_url(link) = None
          THEN stack' = SetTop(rest) /\ UNCHANGED followed
          ELSE /\ stack' = Append(SetTop(rest),
                                  Frame(full_url(link)[1], Top.depth + 1, Some(Top.url)))
               /\ followed' = followed \cup
                    {[from |-> Top.url, run |-> runs, to |-> full_url(link)[1]]}
  /\ UNCHANGED <<status, visited_urls, entry, returned, runs, fetches, ingested,
                 serviceVars, callVars, bootVars, taskVars>>

\* the loop over the links ends: scrape_page_recursive returns
LinksDone ==
  /\ stack # <<>>
  /\ Top.pc = "links"
  /\ Top.links = {} \/ ~Takes(Top.taken)
  /\ stack' = Pop
  /\ UNCHANGED <<status, visited_urls, entry, returned, runs, fetches, followed, ingested,
                 serviceVars, callVars, bootVars, taskVars>>

\* update_content after its loop
FinishUpdate ==
  /\ entry = Len(entry_points) + 1
  /\ stack = <<>>
  /\ status' = end_update(status, runs)
  /\ entry' = 0
  /\ returned' = Some("Ok")
  /\ UNCHANGED <<visited_urls, stack, runs, fetches, followed, ingested,
                 serviceVars, callVars, bootVars, taskVars>>

Next ==
  \/ UpdateContent
  \/ ScrapeEntryPoint
  \/ EnterPage
  \/ FetchPage
  \/ SavePage
  \/ FollowLink
  \/ LinksDone
  \/ FinishUpdate

Spec == Init /\ [][Next]_vars

\* the steps of a running update_content, with an embedding provider that
\* answers and a store that accepts every batch: save_page_content returns Ok
\* whatever they do, and the steps taken after it do not depend on them
UpdateContentStep ==
  \/ ScrapeEntryPoint
  \/ EnterPage
  \/ FetchPage
  \/ SavePageWith({Array384}, {"none"})
  \/ FollowLink
  \/ LinksDone
  \/ FinishUpdate

NextTerminating ==
  \/ UpdateContent
  \/ UpdateContentStep

\* the steps of update_content outside save_page_content
UpdateContentMoves ==
  \/ ScrapeEntryPoint
  \/ EnterPage
  \/ FetchPage
  \/ FollowLink
  \/ LinksDone
  \/ FinishUpdate

\* save_page_content returns to scrape_page_recursive: the step SavePage as
\* the call stack shows it
SavePageReturns ==
  /\ stack # <<>>
  /\ Top.pc = "save"
  /\ stack' = AfterSave

\* a running update_content is polled until it completes: every request ends
\* within the 30 s timeout of the client, every sleep ends, the lock of the
\* embedding service is free, and nothing else is awaited
SpecTerminating ==
  /\ Init /\ [][NextTerminating]_vars
  /\ WF_vars(UpdateContentMoves)
  /\ WF_stack(SavePageReturns)

(***************************************************************************)
(* The commands update_wiki_content and get_wiki_status                    *)
(*                                                                         *)
(* Both commands reach the WikiService through the Arc<Mutex<WikiService>> *)
(* of the application state; each runs on a task of its own.               *)
(***************************************************************************)
MaxStatusCalls == 1

\* update_wiki_content: state.wiki_service.lock().await
UpdateWikiContentLock ==
  /\ tasks.crawl.pc = "idle"
  /\ runs < MaxRuns
  /\ Free(locks.wiki_service)
  /\ locks' = [locks EXCEPT !.wiki_service = "crawl"]
  /\ tasks' = [tasks EXCEPT !.crawl = [pc |-> "update", run |-> runs]]
  /\ UNCHANGED <<serviceVars, callVars, crawlVars, bootVars>>

\* update_wiki_content: wiki_service.update_content().await, a step at a time,
\* with an embedding provider that answers and a store that accepts every batch
UpdateWikiContentRun ==
  /\ tasks.crawl.pc = "update"
  /\ \/ UpdateContent /\ runs = tasks.crawl.run
     \/ UpdateContentStep

\* update_wiki_content: update_content has returned and the guard is dropped
UpdateWikiContentUnlock ==
  /\ tasks.crawl.pc = "update"
  /\ entry = 0
  /\ runs > tasks.crawl.run
  /\ locks' = [locks EXCEPT !.wiki_service = "none"]
  /\ tasks' = [tasks EXCEPT !.crawl = [pc |-> "idle"]]
  /\ UNCHANGED <<serviceVars, callVars, crawlVars, bootVars>>

\* the frontend invokes get_wiki_status
GetWikiStatusCall ==
  /\ ops < MaxStatusCalls
  /\ tasks.status.pc = "idle"
  /\ tasks' = [tasks EXCEPT !.status = [pc |-> "lock_wiki",
                                        asked_while_updating |-> status.is_updating]]
  /\ ops' = ops + 1
  /\ UNCHANGED <<serviceVars, last, locks, crawlVars, bootVars>>

\* get_wiki_status: state.wiki_service.lock().await, then get_status, which
\* clones the status; the guard is dropped when the command returns
GetWikiStatus ==
  /\ tasks.status.pc = "lock_wiki"
  /\ Free(locks.wiki_service)
  /\ last' = [op |-> "get_wiki_status",
              asked_while_updating |-> tasks.status.asked_while_updating,
              snapshot |-> status]
  /\ tasks' = [tasks EXCEPT !.status = [pc |-> "idle"]]
  /\ UNCHANGED <<serviceVars, ops, locks, crawlVars, bootVars>>

NextCommands ==
  \/ UpdateWikiContentLock
  \/ UpdateWikiContentRun
  \/ UpdateWikiContentUnlock
  \/ GetWikiStatusCall
  \/ GetWikiStatus

SpecCommands == Init /\ [][NextCommands]_vars

(***************************************************************************)
(* The mutexes of the application state under concurrent commands          *)
(*                                                                         *)
(* Every command runs on a task of its own.  A command is followed through *)
(* the lock() calls it makes and the points where each guard is dropped;   *)
(* tokio's Mutex hands a free lock to a waiting task.                      *)
(***************************************************************************)
\* invocations that run concurrently
MaxInvocations == 2
\* pages one update_content saves
MaxPagesSaved == 2

Lock(mutex) == <<"lock", mutex>>
Unlock(mutex) == <<"unlock", mutex>>

\* VectorDatabase behind EmbeddingService: search_similar holds vector_db from
\* the scan to its return
SearchSimilarLocks == <<Lock("vector_db"), Unlock("vector_db")>>

ProcessMessageLocksDbFirst ==
  <<Lock("vector_db"), Lock("embedding_service"), Unlock("embedding_service"),
    Unlock("vector_db"), Lock("ollama_manager"), Unlock("ollama_manager")>>

\* process_message: the embedding service around search_similar, then
\* generate_llm_response with the Ollama manager around generate_response
ProcessMessageLocks ==
  <<Lock("embedding_service")>> \o SearchSimilarLocks \o <<Unlock("embedding_service")>>
    \o <<Lock("ollama_manager"), Unlock("ollama_manager")>>

\* send_message: nothing is locked when a validation fails; set_model under the
\* Ollama manager when a model is given; then process_message under the chat
\* service
SendMessageLocks(valid, with_model) ==
  IF ~valid THEN <<>>
  ELSE (IF with_model THEN <<Lock("ollama_manager"), Unlock("ollama_manager")>> ELSE <<>>)
         \o <<Lock("chat_service")>> \o ProcessMessageLocks \o <<Unlock("chat_service")>>

\* process_wiki_page: vector_db around insert_documents unless the cache is empty
ProcessWikiPageLocks(has_chunks) ==
  IF has_chunks THEN <<Lock("vector_db"), Unlock("vector_db")>> ELSE <<>>

\* save_page_content: the embedding service around process_wiki_page
SavePageContentLocks(has_chunks) ==
  <<Lock("embedding_service")>> \o ProcessWikiPageLocks(has_chunks)
    \o <<Unlock("embedding_service")>>

RECURSIVE SavedPagesLocks(_)
SavedPagesLocks(pages) ==
  IF pages = <<>> THEN <<>>
  ELSE SavePageContentLocks(Head(pages)) \o SavedPagesLocks(Tail(pages))

\* update_wiki_content: the wiki service around update_content, which calls
\* save_page_content for each page it fetched
UpdateWikiContentLocks(pages) ==
  <<Lock("wiki_service")>> \o SavedPagesLocks(pages) \o <<Unlock("wiki_service")>>

GetWikiStatusLocks == <<Lock("wiki_service"), Unlock("wiki_service")>>

ProcessWikiEmbeddingsLocks == <<Lock("embedding_service"), Unlock("embedding_service")>>

\* check_ollama_status, install_ollama, start_ollama, download_model,
\* list_models, ensure_ollama_ready
OllamaCommandLocks == <<Lock("ollama_manager"), Unlock("ollama_manager")>>

\* what the frontend can invoke
Commands ==
  {[cmd |-> "send_message", script |-> SendMessageLocks(valid, with_model)] :
     valid \in BOOLEAN, with_model \in BOOLEAN}
  \cup {[cmd |-> "update_wiki_content", script |-> UpdateWikiContentLocks(pages)] :
          pages \in UNION {[1..n -> BOOLEAN] : n \in 0..MaxPagesSaved}}
  \cup {[cmd |-> "get_wiki_status", script |-> GetWikiStatusLocks],
        [cmd |-> "process_wiki_embeddings", script |-> ProcessWikiEmbeddingsLocks],
        [cmd |-> "ollama", script |-> OllamaCommandLocks]}

InvocationNames == <<"first", "second", "third", "fourth">>
Invocations == {InvocationNames[i] : i \in 1..MaxInvocations}

Invocation(i) == tasks.commands[i]

\* the frontend invokes a command
Invoke ==
  /\ Len(tasks.commands) < MaxInvocations
  /\ \E command \in Commands :
       tasks' = [tasks EXCEPT !.commands =
                   Append(@, [cmd |-> command.cmd, script |-> command.script,
                              held |-> <<>>, pc |-> "running"])]
  /\ UNCHANGED <<locks, serviceVars, callVars, crawlVars, bootVars>>

\* lock().await returns the guard once the mutex is free
AcquireLock ==
  \E i \in DOMAIN tasks.commands :
    /\ Invocation(i).pc = "running"
    /\ Invocation(i).script # <<>>
    /\ Head(Invocation(i).script)[1] = "lock"
    /\ \E mutex \in {Head(Invocation(i).script)[2]} :
         /\ Free(locks[mutex])
         /\ locks' = [locks EXCEPT ![mutex] = InvocationNames[i]]
         /\ tasks' = [tasks EXCEPT !.commands[i].script = Tail(@),
                                   !.commands[i].held = Append(@, mutex)]
    /\ UNCHANGED <<serviceVars, callVars, crawlVars, bootVars>>

\* a guard goes out of scope
ReleaseLock ==
  \E i \in DOMAIN tasks.commands :
    /\ Invocation(i).pc = "running"
    /\ Invocation(i).script # <<>>
    /\ Head(Invocation(i).script)[1] = "unlock"
    /\ \E mutex \in {Head(Invocation(i).script)[2]} :
         /\ locks' = [locks EXCEPT ![mutex] = "none"]
         /\ tasks' = [tasks EXCEPT !.commands[i].script = Tail(@),
                                   !.commands[i].held =
                                      SelectSeq(@, LAMBDA held : held # mutex)]
    /\ UNCHANGED <<serviceVars, callVars, crawlVars, bootVars>>

\* the command returns to the frontend
CommandReturns ==
  \E i \in DOMAIN tasks.commands :
    /\ Invocation(i).pc = "running"
    /\ Invocation(i).script = <<>>
    /\ tasks' = [tasks EXCEPT !.commands[i].pc = "done"]
    /\ UNCHANGED <<locks, serviceVars, callVars, crawlVars, bootVars>>

CommandStep == AcquireLock \/ ReleaseLock \/ CommandReturns

NextLocks ==
  \/ Invoke
  \/ AcquireLock
  \/ ReleaseLock
  \/ CommandReturns

\* every request, poll and sleep inside a command ends, and a task that can go
\* on is scheduled
SpecLocks == Init /\ [][NextLocks]_vars /\ WF_vars(CommandStep)

(***************************************************************************)
(* Installation (OllamaManager::install_windows)                           *)
(***************************************************************************)
MAX_RETRIES == 3

\* the errors of download_installer_with_verification: the request or its
\* status, the body or its verification, the file
DownloadErrors ==
  {"Failed to download installer", "Failed to read installer", "Failed to save installer"}

\* the installer cannot be run, exits with a failure, or succeeds
InstallerOutcomes == {"Failed to run installer", "Ollama installation failed", "success"}

Installing == last.op = "install_windows" /\ last.pc # "done"

\* install_windows up to its loop
InstallWindows ==
  /\ ops < MaxOps
  /\ ~Installing
  /\ last' = [op |-> "install_windows", pc |-> "download", attempt |-> 1,
              last_error |-> None, downloads |-> <<>>, installer |-> None,
              result |-> None]
  /\ ops' = ops + 1
  /\ UNCHANGED <<serviceVars, crawlVars, bootVars, taskVars>>

\* one turn of the loop over the attempts
DownloadAttempt ==
  /\ Installing
  /\ last.pc = "download"
  /\ \E outcome \in {"ok"} \cup DownloadErrors :
       last' = IF outcome = "ok"
               THEN [last EXCEPT !.downloads = Append(@, outcome), !.pc = "after_loop"]
               ELSE [last EXCEPT !.downloads = Append(@, outcome),
                                 !.last_error = Some(outcome),
                                 !.attempt = @ + 1,
                                 !.pc = IF last.attempt < MAX_RETRIES
                                        THEN "download" ELSE "after_loop"]
  /\ UNCHANGED <<ops, serviceVars, crawlVars, bootVars, taskVars>>

\* `if let Some(error) = last_error { return Err(error); }'
AfterDownloads ==
  /\ Installing
  /\ last.pc = "after_loop"
  /\ last' = IF last.last_error # None
             THEN [last EXCEPT !.pc = "done",
                               !.result = Some([ok |-> FALSE, error |-> last.last_error[1]])]
             ELSE [last EXCEPT !.pc = "run"]
  /\ UNCHANGED <<ops, serviceVars, crawlVars, bootVars, taskVars>>

\* the installer is run and install_windows returns
RunInstaller ==
  /\ Installing
  /\ last.pc = "run"
  /\ \E outcome \in InstallerOutcomes :
       last' = [last EXCEPT !.pc = "done", !.installer = Some(outcome),
                            !.result = Some(IF outcome = "success" THEN [ok |-> TRUE]
                                            ELSE [ok |-> FALSE, error |-> outcome])]
  /\ UNCHANGED <<ops, serviceVars, crawlVars, bootVars, taskVars>>

NextInstall ==
  \/ InstallWindows
  \/ DownloadAttempt
  \/ AfterDownloads
  \/ RunInstaller

SpecInstall == InitIngest /\ [][NextInstall]_vars

(***************************************************************************)
(* The Ollama process (OllamaManager::start_service, shutdown, drop)       *)
(*                                                                         *)
(* tasks.ollama is the manager: process is its field, None or the child    *)
(* it tracks; children are the processes it has spawned so far, each        *)
(* "running" or "exited".  Dropping a std::process::Child does not end the *)
(* process.                                                                *)
(***************************************************************************)
\* the polls of start_service after the spawn
StartPolls == 30
\* children one manager spawns
MaxChildren == 2

\* the poll at which check_health first succeeds; StartPolls + 1 stands for never
ReadyAt == {1, StartPolls, StartPolls + 1}

\* start_service: nothing when the server answers; else the spawn, whose child
\* replaces the process field, and up to StartPolls polls.  When it returns the
\* child is still running or has exited
start_service(manager, healthy, spawned, ready_at, alive) ==
  IF healthy THEN [manager |-> manager, ok |-> TRUE, polls |-> 0]
  ELSE IF ~spawned THEN [manager |-> manager, ok |-> FALSE, polls |-> 0]
  ELSE [manager |->
          [manager EXCEPT !.children = Append(@, IF alive THEN "running" ELSE "exited"),
                          !.process = Some(Len(manager.children) + 1)],
        ok |-> ready_at <= StartPolls,
        polls |-> Min(ready_at, StartPolls)]

\* ensure_available: nothing when the server answers; else the installation
\* when ollama is not found, start_service, ensure_model_available
ensure_available(manager, healthy, installed, spawned, ready_at, alive, model) ==
  IF healthy THEN [manager |-> manager, ok |-> TRUE]
  ELSE IF ~installed THEN [manager |-> manager, ok |-> FALSE]
  ELSE With(start_service(manager, FALSE, spawned, ready_at, alive), LAMBDA started :
         [manager |-> started.manager, ok |-> started.ok /\ model])

\* shutdown and drop: process.take(), kill, wait.  kill fails only on a child
\* that has exited
shutdown(manager, killed, waited) ==
  IF manager.process = None THEN [manager |-> manager, ok |-> TRUE]
  ELSE With(manager.process[1], LAMBDA child :
         IF killed
         THEN [manager |-> [manager EXCEPT !.process = None, !.children[child] = "exited"],
               ok |-> waited]
         ELSE [manager |-> [manager EXCEPT !.process = None], ok |-> FALSE])

Manager == tasks.ollama

CanKill(manager) ==
  IF manager.process # None /\ manager.children[manager.process[1]] = "exited"
  THEN BOOLEAN ELSE {TRUE}

StartService ==
  /\ ops < MaxCalls
  /\ ~Manager.dropped
  /\ Len(Manager.children) < MaxChildren
  /\ \E healthy \in BOOLEAN, spawned \in BOOLEAN, ready_at \in ReadyAt, alive \in BOOLEAN :
       \E r \in {start_service(Manager, healthy, spawned, ready_at, alive)} :
         /\ tasks' = [tasks EXCEPT !.ollama = r.manager]
         /\ last' = [op |-> "start_service", ok |-> r.ok, polls |-> r.polls,
                     before |-> Manager]
  /\ ops' = ops + 1
  /\ UNCHANGED <<locks, serviceVars, crawlVars, bootVars>>

EnsureAvailable ==
  /\ ops < MaxCalls
  /\ ~Manager.dropped
  /\ Len(Manager.children) < MaxChildren
  /\ \E healthy \in BOOLEAN, installed \in BOOLEAN, spawned \in BOOLEAN,
        ready_at \in ReadyAt, alive \in BOOLEAN, model \in BOOLEAN :
       \E r \in {ensure_available(Manager, healthy, installed, spawned, ready_at, alive,
                                  model)} :
         /\ tasks' = [tasks EXCEPT !.ollama = r.manager]
         /\ last' = [op |-> "ensure_available", ok |-> r.ok, before |-> Manager]
  /\ ops' = ops + 1
  /\ UNCHANGED <<locks, serviceVars, crawlVars, bootVars>>

Shutdown ==
  /\ ops < MaxCalls
  /\ ~Manager.dropped
  /\ \E killed \in CanKill(Manager), waited \in BOOLEAN :
       \E r \in {shutdown(Manager, killed, waited)} :
         /\ tasks' = [tasks EXCEPT !.ollama = r.manager]
         /\ last' = [op |-> "shutdown", ok |-> r.ok, before |-> Manager]
  /\ ops' = ops + 1
  /\ UNCHANGED <<locks, serviceVars, crawlVars, bootVars>>

\* the manager is dropped when the application exits
DropManager ==
  /\ ~Manager.dropped
  /\ \E killed \in CanKill(Manager) :
       \E r \in {shutdown(Manager, killed, TRUE)} :
         /\ tasks' = [tasks EXCEPT !.ollama = [r.manager EXCEPT !.dropped = TRUE]]
         /\ last' = [op |-> "drop", before |-> Manager]
  /\ UNCHANGED <<ops, locks, serviceVars, crawlVars, bootVars>>

\* a child ends by itself
ChildExits ==
  /\ \E child \in DOMAIN Manager.children :
       /\ Manager.children[child] = "running"
       /\ tasks' = [tasks EXCEPT !.ollama.children[child] = "exited"]
  /\ UNCHANGED <<locks, serviceVars, callVars, crawlVars, bootVars>>

NextOllama ==
  \/ StartService
  \/ EnsureAvailable
  \/ Shutdown
  \/ DropManager
  \/ ChildExits

SpecOllama == InitIngest /\ [][NextOllama]_vars

(***************************************************************************)
(* The chat command (commands::chat::send_message)                         *)
(*                                                                         *)
(* tasks.session holds what the command can change: model_name of the      *)
(* Ollama manager's configuration, conversation_history of the chat        *)
(* service, and calls, the retrieval and generation calls made so far.     *)
(***************************************************************************)
MaxModelNameLen == 100
MaxMessageLen == 10000

\* char::is_control on the ASCII range
IsControl(b) == b < 32 \/ b = 127

ModelSpecial == {58, 45, 95, 46}

validate_model_name(name) ==
  /\ name # <<>>
  /\ Len(name) <= MaxModelNameLen
  /\ \A i \in DOMAIN name : IsAlphanumeric(name[i]) \/ name[i] \in ModelSpecial
  /\ IsAlphanumeric(name[1])
  /\ IsAlphanumeric(name[Len(name)])

validate_message_content(content) ==
  /\ \E i \in DOMAIN content : ~IsWhitespace(content[i])
  /\ Len(content) <= MaxMessageLen
  /\ ~\E i \in DOMAIN content : IsControl(content[i]) /\ content[i] \notin {10, 13, 9}

\* process_message: the user message joins the history, search_similar is
\* called (its error is an empty context), generate_response is called (its
\* error is the fallback response), the assistant message joins the history
process_message(session, message, generated) ==
  [session EXCEPT
     !.conversation_history =
        @ \o <<[role |-> "user", content |-> message],
               [role |-> "assistant",
                content |-> IF generated THEN "response" ELSE "fallback"]>>,
     !.calls = @ \o <<"search_similar", "generate_response">>]

SendMessageSetsModelFirst(session, message, model, generated) ==
  IF ~validate_message_content(message) THEN [session |-> session, ok |-> FALSE]
  ELSE IF model # None /\ ~validate_model_name(model[1])
  THEN [session |-> [session EXCEPT !.model_name = model[1]], ok |-> FALSE]
  ELSE [session |->
          process_message(IF model = None THEN session
                          ELSE [session EXCEPT !.model_name = model[1]],
                          message, generated),
        ok |-> TRUE]

send_message(session, message, model, generated) ==
  IF ~validate_message_content(message) THEN [session |-> session, ok |-> FALSE]
  ELSE IF model # None /\ ~validate_model_name(model[1])
  THEN [session |-> session, ok |-> FALSE]
  ELSE [session |->
          process_message(IF model = None THEN session
                          ELSE [session EXCEPT !.model_name = model[1]],
                          message, generated),
        ok |-> TRUE]

\* "how do I craft a pickaxe?"
MessageQuestion ==
  <<104, 111, 119, 32, 100, 111, 32, 73, 32, 99, 114, 97, 102, 116, 32, 97, 32, 112, 105, 99, 107, 97, 120, 101, 63>>
\* " \n\t"
MessageBlank ==
  <<32, 10, 9>>
\* "hi" followed by the control character 0x07
MessageBell ==
  <<104, 105, 7>>
\* "line\r\nline"
MessageLines ==
  <<108, 105, 110, 101, 13, 10, 108, 105, 110, 101>>
\* 10001 times "a"
MessageTooLong == [i \in 1..(MaxMessageLen + 1) |-> 97]

Messages == {MessageQuestion, <<>>, MessageBlank, MessageBell, MessageLines, MessageTooLong}

\* "llama2:7b"
ModelLlama ==
  <<108, 108, 97, 109, 97, 50, 58, 55, 98>>
\* ":mini"
ModelLeadingColon ==
  <<58, 109, 105, 110, 105>>
\* "phi3-"
ModelTrailingHyphen ==
  <<112, 104, 105, 51, 45>>
\* "phi3 mini"
ModelWithSpace ==
  <<112, 104, 105, 51, 32, 109, 105, 110, 105>>
\* 101 times "a"
ModelTooLong == [i \in 1..(MaxModelNameLen + 1) |-> 97]

Models ==
  {None, Some(ModelLlama), Some(<<>>), Some(ModelLeadingColon), Some(ModelTrailingHyphen),
   Some(ModelWithSpace), Some(ModelTooLong)}

Session == tasks.session

SendMessage ==
  /\ ops < MaxCalls
  /\ \E message \in Messages, model \in Models, generated \in BOOLEAN :
       \E r \in {send_message(Session, message, model, generated)} :
         /\ tasks' = [tasks EXCEPT !.session = r.session]
         /\ last' = [op |-> "send_message", message |-> message, model |-> model,
                     ok |-> r.ok, before |-> Session]
  /\ ops' = ops + 1
  /\ UNCHANGED <<locks, serviceVars, crawlVars, bootVars>>

NextChat == SendMessage

SpecChat == InitIngest /\ [][NextChat]_vars

(***************************************************************************)
(* The fallback embedding (EmbeddingService::create_mock_embedding) on a   *)
(* service whose cache and store change between the calls                  *)
(*                                                                         *)
(* tasks.mocked holds the calls made so far: the text, the vector returned *)
(* and the length of the cache at the call.                                *)
(***************************************************************************)
\* "Metalworking", whose hash wraps: its slot is 234, and would be 362 in 64 bits
WordMetalworking ==
  <<77, 101, 116, 97, 108, 119, 111, 114, 107, 105, 110, 103>>

\* n times the word w and then the word v, separated by single spaces
ManyWords(w, n, v) ==
  [i \in 1..(n * (Len(w) + 1)) |->
     IF i % (Len(w) + 1) = 0 THEN 32 ELSE w[i % (Len(w) + 1)]] \o v

\* the empty text, a word whose hash exceeds 32 bits, a text of MaxHashedWords
\* words and one of one word more
TextOfOneWordMore == ManyWords(WordOre, MaxHashedWords, WordMetalworking)

MockTexts ==
  { <<>>,
    WordMetalworking \o <<32>> \o WordClay,
    ManyWords(WordOre, MaxHashedWords - 1, WordTin),
    TextOfOneWordMore }

CreateMockEmbedding ==
  /\ ops < MaxCalls
  /\ \E text \in MockTexts :
       \E r \in {create_mock_embedding(text)} :
         /\ last' = [op |-> "create_mock_embedding", text |-> text, ok |-> r.ok,
                     vec |-> r.vec]
         /\ tasks' = [tasks EXCEPT !.mocked =
                        @ \cup {[text |-> text, vec |-> r.vec, cache |-> Len(chunks)]}]
  /\ ops' = ops + 1
  /\ UNCHANGED <<locks, serviceVars, crawlVars, bootVars>>

\* between the calls pages are ingested, the provider answering or not
IngestPage == ProcessWikiPageWith({"none"}, {Array384, Failure("connect")})

NextMock == IngestPage \/ CreateMockEmbedding

SpecMock == InitIngest /\ [][NextMock]_vars

(***************************************************************************)
(* Startup (main): the construction of the EmbeddingServices                *)
(***************************************************************************)
\* main constructs one EmbeddingService itself and one inside ChatService::new
ServicesAtStartup == 2

NewConstruction(service, handles) ==
  [service |-> service, pc |-> IF service > ServicesAtStartup THEN "done" ELSE "create_dir",
   opens |-> 0, lock_failed |-> FALSE, removed |-> FALSE, recreated |-> FALSE,
   handles |-> handles, aborted |-> FALSE]

\* EmbeddingService::new has its store and returns; the flags of the
\* construction stay until the next one begins
Constructed(kind) ==
  [boot EXCEPT !.pc = IF boot.service = ServicesAtStartup THEN "done" ELSE "constructed",
               !.handles = Append(@, kind)]

\* the directory is absent, or present with or without the records of an
\* earlier run; another process may hold the lock of the store
InitBoot ==
  /\ chunks = <<>>
  /\ db = <<>>
  /\ last = NoCall
  /\ ops = 0
  /\ WikiServiceNew
  /\ NoTasks
  /\ disk \in {d \in [exists : BOOLEAN, populated : BOOLEAN, lock : {"free", "other"}] :
                 ~d.exists => (~d.populated /\ d.lock = "free")}
  /\ boot = NewConstruction(1, <<>>)

\* the next EmbeddingService::new begins
BeginConstruction ==
  /\ boot.pc = "constructed"
  /\ boot' = NewConstruction(boot.service + 1, boot.handles)
  /\ UNCHANGED <<disk, serviceVars, callVars, crawlVars, taskVars>>

\* VectorDatabase::new: create_dir_all, which fails only when it has to create
CreateDir ==
  /\ boot.pc = "create_dir"
  /\ \E created \in (IF disk.exists THEN {TRUE} ELSE BOOLEAN) :
       /\ disk' = [disk EXCEPT !.exists = created]
       /\ boot' = [boot EXCEPT !.pc = IF created THEN "open" ELSE "fallback"]
  /\ UNCHANGED <<serviceVars, callVars, crawlVars, taskVars>>

\* VectorDatabase::new: the first sled::open.  A held lock gives the lock
\* error; otherwise the store opens or fails for another reason
OpenStore ==
  /\ boot.pc = "open"
  /\ IF disk.lock # "free"
     THEN /\ boot' = [boot EXCEPT !.pc = "cleanup", !.opens = @ + 1, !.lock_failed = TRUE]
          /\ UNCHANGED <<disk, db>>
     ELSE \E opened \in BOOLEAN :
            IF opened
            THEN /\ boot' = [Constructed("durable") EXCEPT !.opens = @ + 1]
                 /\ disk' = [disk EXCEPT !.lock = "held"]
                 /\ db' = IF disk.populated THEN PreviousStore ELSE <<>>
            ELSE /\ boot' = [boot EXCEPT !.pc = "fallback", !.opens = @ + 1]
                 /\ UNCHANGED <<disk, db>>
  /\ UNCHANGED <<chunks, callVars, crawlVars, taskVars>>

\* VectorDatabase::new after a lock error: remove_dir_all and create_dir_all,
\* whose failures are logged only
Cleanup ==
  /\ boot.pc = "cleanup"
  /\ \E removed \in BOOLEAN, created \in BOOLEAN :
       /\ disk.exists
       /\ ~removed => created
       /\ disk' = IF removed
                  THEN [exists |-> created, populated |-> FALSE, lock |-> "free"]
                  ELSE disk
       /\ boot' = [boot EXCEPT !.pc = "reopen", !.removed = removed,
                               !.recreated = (removed /\ created)]
  /\ UNCHANGED <<serviceVars, callVars, crawlVars, taskVars>>

\* VectorDatabase::new: the second sled::open
ReopenStore ==
  /\ boot.pc = "reopen"
  /\ \E opened \in (IF disk.lock # "free" THEN {FALSE} ELSE BOOLEAN) :
       IF opened
       THEN /\ boot' = [Constructed("durable") EXCEPT !.opens = @ + 1]
            /\ disk' = [disk EXCEPT !.exists = TRUE, !.lock = "held"]
            /\ db' = IF boot.service = 1 THEN <<>> ELSE db
       ELSE /\ boot' = [boot EXCEPT !.pc = "fallback", !.opens = @ + 1]
            /\ UNCHANGED <<disk, db>>
  /\ UNCHANGED <<chunks, callVars, crawlVars, taskVars>>

\* EmbeddingService::new after Err: VectorDatabase::new_fallback, which panics
\* when the temporary store cannot be created
Fallback ==
  /\ boot.pc = "fallback"
  /\ \E opened \in BOOLEAN :
       boot' = IF opened THEN Constructed("ephemeral")
               ELSE [boot EXCEPT !.pc = "panic", !.aborted = TRUE]
  /\ UNCHANGED <<disk, serviceVars, callVars, crawlVars, taskVars>>

NextBoot ==
  \/ BeginConstruction
  \/ CreateDir
  \/ OpenStore
  \/ Cleanup
  \/ ReopenStore
  \/ Fallback

SpecBoot == InitBoot /\ [][NextBoot]_vars

(***************************************************************************)
(* Properties of the crawl                                                 *)
(***************************************************************************)
Url(page) == WithBaseUrl(Link("index", page))

\* the fetches of the current run
RunFetches == {f \in fetches : f.run = runs}

\* the pages fetched that are no longer being scraped
Scraped == {f \in fetches : f.ok /\ \A i \in 1..Len(stack) : stack[i].url # f.url}

\* the URLs the links of each page of the wiki lead to, by page name
LinkTargets ==
  [page \in DOMAIN Site |->
     {full_url(link)[1] :
        link \in {l \in extract_wiki_links(parse_wiki_page(Url(page), Site[page]).content) :
                    full_url(l) # None}}]

\* the pages of the wiki whose content is long enough to be embedded
EmbeddablePages ==
  {page \in DOMAIN Site :
     Len(Trim(parse_wiki_page(Url(page), Site[page]).content.text)) >= MinChunkLen}

\* the counters count the fetches of the run; once a page above max_depth with
\* at most MaxLinksPerPage links has been scraped, each of its links was
\* followed; after the run every entry point was visited and Ok was returned
CrawlGoesOn ==
  /\ status.is_updating =>
       /\ status.errors_encountered = Cardinality({f \in RunFetches : ~f.ok})
       /\ status.pages_scraped = Cardinality({f \in RunFetches : f.ok})
  /\ \A f \in Scraped :
       (f.depth < max_depth /\ Cardinality(LinkTargets[f.url.page]) <= MaxLinksPerPage) =>
          \A to \in LinkTargets[f.url.page] :
             [from |-> f.url, run |-> f.run, to |-> to] \in followed
  /\ (entry = 0 /\ runs > 0) =>
       /\ returned = Some("Ok")
       /\ \A i \in 1..Len(entry_points) : WithBaseUrl(entry_points[i]) \in visited_urls

\* a step that records a failed fetch adds one error, leaves pages_scraped, and
\* returns to the caller, whose links and entry points are as before
FailedFetchStep ==
  (\E f \in fetches' \ fetches : ~f.ok) =>
     /\ status'.errors_encountered = status.errors_encountered + 1
     /\ status'.pages_scraped = status.pages_scraped
     /\ status'.is_updating
     /\ stack' = Pop
     /\ entry' = entry

\* C1: a fetch or parse failure of a page, entry point or linked, adds exactly
\* one to errors_encountered and leaves pages_scraped; the crawl goes on with
\* the other links of the page and the other entry points, and update_content
\* returns Ok.
FailedFetchCountsOneError == [](CrawlGoesOn) /\ [][FailedFetchStep]_vars

\* a link of Main_Page has been fetched after the fetch of another of its
\* links failed, and the run is at its next entry point, one error counted
SiblingFetchedAfterFailure ==
  /\ entry = 2
  /\ stack = <<>>
  /\ status.errors_encountered = 1
  /\ \E f, g \in RunFetches :
       /\ ~f.ok /\ f.depth = 1 /\ f.parent = Some(Url("Main_Page"))
       /\ g.ok /\ g.depth = 1 /\ g.parent = f.parent /\ g.parent_failures = 1

\* C2: update_content is running exactly while is_updating is true: it sets the
\* flag on entry and has cleared it when it returns, whatever the fetches give;
\* while the flag stays true neither counter decreases.
CrawlRunIsIdleRunningIdle ==
  /\ [](status.is_updating <=> entry # 0)
  /\ [][(entry = 0 /\ entry' # 0) => (status'.is_updating /\ stack' = <<>>)]_vars
  /\ [][(entry # 0 /\ entry' = 0) => (~status'.is_updating /\ returned' = Some("Ok"))]_vars
  /\ [][(status.is_updating /\ status'.is_updating) =>
          /\ status'.pages_scraped >= status.pages_scraped
          /\ status'.errors_encountered >= status.errors_encountered]_vars

\* the first run is over, with pages scraped and pages failed
RunOverWithMixedOutcomes ==
  /\ runs = 1
  /\ entry = 0
  /\ ~status.is_updating
  /\ status.pages_scraped >= 3
  /\ status.errors_encountered >= 3

\* C3: no page is fetched deeper than max_depth links below its entry point,
\* and at most MaxLinksPerPage links of a page are recursed into.
CrawlIsBounded ==
  /\ \A f \in fetches : f.depth <= max_depth
  /\ \A i \in 1..Len(stack) : stack[i].depth <= max_depth + 1 /\ stack[i].taken <= MaxLinksPerPage
  /\ \A r \in followed :
       Cardinality({q \in followed : q.from = r.from /\ q.run = r.run}) <= MaxLinksPerPage

\* a run is over that fetched Tin at max_depth and not the page Tin links to,
\* and recursed into MaxLinksPerPage links of Crafting, which has more
DepthAndBreadthReached ==
  /\ entry = 0
  /\ \E f \in fetches : f.url = Url("Tin") /\ f.ok /\ f.depth = max_depth
  /\ Url("Lead") \notin visited_urls
  /\ Cardinality(LinkTargets["Crafting"]) > MaxLinksPerPage
  /\ Cardinality({q \in followed : q.from = Url("Crafting")}) = MaxLinksPerPage

\* a call of scrape_page_recursive for a visited URL returns without a fetch
VisitedUrlSkipped ==
  (stack # <<>> /\ Top.pc = "enter" /\ Top.url \in visited_urls) =>
     (stack' = Pop /\ fetches' = fetches /\ status' = status)

\* C4: no URL is fetched twice; a URL is in visited_urls before its fetch
\* starts; a call for a visited URL returns without fetching, also when the
\* earlier fetch of the URL failed.
NoUrlFetchedTwice ==
  /\ [](\A f \in fetches : f.nth = 1 /\ f.url \in visited_urls)
  /\ [](\A i \in 1..Len(stack) : stack[i].pc # "enter" => stack[i].url \in visited_urls)
  /\ [][VisitedUrlSkipped]_vars

\* the entry point Blocks was skipped: its fetch had failed when it was a link
FailedUrlNotFetchedAgain ==
  /\ entry = 3
  /\ stack = <<>>
  /\ \E f \in fetches : f.url = Url("Blocks") /\ ~f.ok /\ f.depth = 1 /\ f.run = runs
  /\ Cardinality({f \in fetches : f.url = Url("Blocks")}) = 1

\* C5: process_wiki_page has returned for a page before a link of the page is
\* fetched: its chunks are in the cache when the recursion starts.
PageIngestedBeforeItsLinks ==
  /\ \A f \in fetches : f.parent_ingested
  /\ \A r \in followed : r.from \in ingested
  /\ \A i \in 2..Len(stack) : stack[i - 1].pc = "links" /\ stack[i - 1].url \in ingested
  /\ \A u \in ingested :
       /\ \E f \in fetches : f.url = u /\ f.ok
       /\ u.page \in EmbeddablePages => \E k \in 1..Len(chunks) : chunks[k].source_url = u

\* a link of Main_Page is being fetched while the chunk of Main_Page is in the
\* cache only, the store having refused it
LinkFetchedAfterParentCached ==
  /\ stack # <<>>
  /\ Top.pc = "fetch"
  /\ Top.parent = Some(Url("Main_Page"))
  /\ \E k \in 1..Len(chunks) : chunks[k].source_url = Url("Main_Page")
  /\ db = <<>>

(***************************************************************************)
(* Properties of retrieval and embedding                                   *)
(***************************************************************************)
\* the records the store can read during the last search
Readable == DOMAIN db \ last.unreadable

NonIncreasing(results) ==
  \A i \in 1..(Len(results) - 1) : results[i].score >= results[i + 1].score

SearchAnsweredByStore ==
  /\ last.op = "search_similar"
  /\ chunks # <<>>
  /\ last.from = "store"
  /\ Len(last.results) >= 2

\* C7: when insert_documents fails in process_wiki_page, the call still returns
\* success and the cache holds every chunk embedded for the page; a search that
\* follows against an empty store returns those chunks from the cache.
InsertFailureKeepsCache ==
  /\ (last.op = "process_wiki_page" /\ ~last.insert_ok) =>
       /\ last.ok
       /\ chunks = last.chunks_before \o last.embedded
  /\ (last.op = "search_similar" /\ db = <<>> /\ chunks # <<>>) =>
       /\ last.ok
       /\ last.from = "cache"
       /\ Len(last.results) = Min(last.limit, Len(chunks))
       /\ \A i \in 1..Len(last.results) :
            \E j \in 1..Len(chunks) : last.results[i].chunk = chunks[j]

\* the cache is searched after the insert of its chunks failed
CacheSearchedAfterFailedInsert ==
  /\ last.op = "search_similar"
  /\ db = <<>>
  /\ chunks # <<>>
  /\ Len(last.results) = Len(chunks)

\* the 0-based indices of the chunks of a page that are long enough to embed
Embeddable(content) ==
  With(split_into_chunks(content, chunk_size, chunk_overlap).chunks, LAMBDA parts :
    {i \in 0..(Len(parts) - 1) : Len(Trim(parts[i + 1])) >= MinChunkLen})

\* C8: create_embedding returns a vector for every outcome of the remote call;
\* a failed call, an answer without an array and an array without numbers give
\* the fallback vector; process_wiki_page embeds every chunk that is long enough
\* and search_similar succeeds, whatever the provider answers.
CreateEmbeddingNeverFails ==
  /\ last.op = "embed_text" =>
       /\ last.ok
       /\ last.resp \in FailureResponses =>
            /\ last.vec.len = EmbeddingDim
            /\ last.vec = create_mock_embedding(last.text).vec
  /\ last.op = "process_wiki_page" =>
       /\ last.ok
       /\ Len(last.embedded) = Cardinality(Embeddable(last.page.content))
  /\ last.op = "search_similar" => last.ok

\* a page is embedded while the provider is unreachable
PageEmbeddedWithoutProvider ==
  /\ last.op = "process_wiki_page"
  /\ last.embedded # <<>>
  /\ \A i \in DOMAIN last.resps : last.resps[i].kind = "connect"
  /\ last.embedded[1].embedding[1].len = EmbeddingDim

\* C9 as stated: whatever the provider answers, the vector returned for a
\* non-empty text has EmbeddingDim components.
EmbeddingHasFixedLength ==
  (last.op = "embed_text" /\ last.text # <<>>) => (last.ok /\ last.vec.len = EmbeddingDim)

(***************************************************************************)
(* Properties of startup                                                   *)
(***************************************************************************)
\* C10 as stated: a construction opens the durable location at most twice, the
\* second time only after a lock error and after the directory was deleted and
\* recreated; it ends with a durable or an ephemeral store, and startup is
\* never aborted.
StoreInitRetriesOnceThenDegrades ==
  /\ boot.opens <= 2
  /\ boot.opens = 2 => (boot.lock_failed /\ boot.removed /\ boot.recreated)
  /\ ~boot.aborted
  /\ boot.pc \in {"constructed", "done"} =>
       /\ Len(boot.handles) = boot.service
       /\ boot.handles[boot.service] \in {"durable", "ephemeral"}

(***************************************************************************)
(* Properties of the vector store                                          *)
(***************************************************************************)
BatchIds(documents) == {documents[i].id : i \in 1..Len(documents)}

\* C11 as stated: insert_documents is all or nothing; after Ok every record of
\* the batch is in the store, after an error the store is as it was, and an
\* empty batch gives Ok and changes nothing.
InsertIsAllOrNothing ==
  last.op = "insert_documents" =>
    /\ last.ok => \A id \in BatchIds(last.documents) :
                    id \in DOMAIN db /\ \E i \in 1..Len(last.documents) : db[id] = last.documents[i]
    /\ ~last.ok => db = last.db_before
    /\ last.documents = <<>> => (last.ok /\ db = last.db_before)

\* C12 as stated: after insert_documents succeeds on a batch of N records,
\* count_documents is N greater than before.
InsertAddsBatchLength ==
  (last.op = "insert_documents" /\ last.ok) =>
     count_documents(db) = count_documents(last.db_before) + Len(last.documents)

\* C12, amended: after insert_documents succeeds, count_documents is greater by
\* the number of distinct ids of the batch that the store did not hold; a
\* record whose id is stored replaces the stored one, and the last record of
\* the batch with an id is the one kept.
InsertAddsNewIds ==
  (last.op = "insert_documents" /\ last.ok) =>
     /\ count_documents(db) =
          count_documents(last.db_before)
            + Cardinality(BatchIds(last.documents) \ DOMAIN last.db_before)
     /\ \A i \in 1..Len(last.documents) :
          (\A j \in (i + 1)..Len(last.documents) : last.documents[j].id # last.documents[i].id)
             => db[last.documents[i].id] = last.documents[i]
     /\ \A id \in DOMAIN last.db_before \ BatchIds(last.documents) :
          id \in DOMAIN db /\ db[id] = last.db_before[id]

\* a batch of two records was inserted of which one replaced a stored record
InsertReplacedStoredRecord ==
  /\ last.op = "insert_documents"
  /\ last.ok
  /\ Len(last.documents) = 2
  /\ count_documents(db) = count_documents(last.db_before) + 1
  /\ \E id \in DOMAIN last.db_before : db[id] # last.db_before[id]

\* the records of the store before the last call that have the source
WithSource(source_url) ==
  {id \in DOMAIN last.db_before : last.db_before[id].source_url = source_url}

\* C13 as stated: after delete_by_source(u) succeeds no record of the store has
\* the source u, every other record is as it was, and the count has dropped by
\* the number of records that had the source u.
DeleteRemovesExactlyTheSource ==
  (last.op = "delete_by_source" /\ last.ok) =>
     /\ \A id \in DOMAIN db : db[id].source_url # last.source_url
     /\ \A id \in DOMAIN last.db_before \ WithSource(last.source_url) :
          id \in DOMAIN db /\ db[id] = last.db_before[id]
     /\ count_documents(db) =
          count_documents(last.db_before) - Cardinality(WithSource(last.source_url))

\* the score the store gives a record for the query of the last search
ScoreOf(id) == db_cosine_similarity(last.embedding, db[id].embedding)

\* the ids of the records the last search returned
Returned == {last.results[i].doc.id : i \in 1..Len(last.results)}

SearchSeesWholeBatches ==
  last.op = "process_message" => last.seen \in tasks.stores

\* a search scanned a store of several records and returned while the crawl,
\* with a page to save, was waiting for the EmbeddingService
SearchReturnedWhileCrawlWaited ==
  /\ last.op = "process_message"
  /\ last.waiting
  /\ Cardinality(DOMAIN last.seen) >= 2
  /\ tasks.crawl.pc = "lock_service"

(***************************************************************************)
(* Properties of the chunker and its configuration                         *)
(***************************************************************************)
SplitReturned == last.op = "split_into_chunks" /\ last.pc = "done"

\* C16: for a content of at most chunk_size words, split_into_chunks returns
\* exactly one chunk, and that chunk is the content without its leading and
\* trailing white space.
ShortContentIsOneTrimmedChunk ==
  (SplitReturned /\ Len(last.words) <= last.chunk_size)
    => last.chunks = <<Trim(last.content)>>

Ceil(a, b) == (a + b - 1) \div b

\* the words of the chunks in order, without the first `overlap' words of every
\* chunk but the first
RECURSIVE Stitched(_, _, _)
Stitched(cs, overlap, i) ==
  IF i > Len(cs) THEN <<>>
  ELSE With(SplitWhitespace(cs[i]), LAMBDA ws :
         (IF i = 1 THEN ws ELSE SubSeq(ws, overlap + 1, Len(ws)))
           \o Stitched(cs, overlap, i + 1))

CommonWords(a, b) == {a[i] : i \in 1..Len(a)} \cap {b[i] : i \in 1..Len(b)}

\* C17: for a content of more than chunk_size words and overlap < chunk_size,
\* split_into_chunks returns ceil((word_count - overlap) / (chunk_size - overlap))
\* chunks of at most chunk_size words each; the last `overlap' words of a chunk
\* are the first `overlap' words of the next and the two share no other word;
\* the chunks cover every word of the content in order.
ChunksAreOverlappingWindows ==
  (SplitReturned /\ Len(last.words) > last.chunk_size /\ last.overlap < last.chunk_size)
    => /\ Len(last.chunks) = Ceil(Len(last.words) - last.overlap,
                                  last.chunk_size - last.overlap)
       /\ \A i \in 1..Len(last.chunks) :
            Len(SplitWhitespace(last.chunks[i])) <= last.chunk_size
       /\ \A i \in 1..(Len(last.chunks) - 1) :
            \E a \in {SplitWhitespace(last.chunks[i])},
               b \in {SplitWhitespace(last.chunks[i + 1])} :
              /\ Len(a) >= last.overlap
              /\ Len(b) >= last.overlap
              /\ SubSeq(a, Len(a) - last.overlap + 1, Len(a)) = SubSeq(b, 1, last.overlap)
              /\ Cardinality(CommonWords(a, b)) = last.overlap
       /\ Stitched(last.chunks, last.overlap, 1) = last.words

\* a text was cut into four or more windows that overlap by two words, the last
\* window shorter than the others
TextCutIntoOverlappingChunks ==
  /\ SplitReturned
  /\ last.overlap = 2
  /\ last.chunk_size = 4
  /\ Len(last.chunks) >= 4
  /\ (Len(last.words) - last.overlap) % (last.chunk_size - last.overlap) # 0

ChunkLoopRuns ==
  last.op = "split_into_chunks" /\ last.pc = "loop" /\ last.overlap < last.chunk_size

\* C18: split_into_chunks terminates for every content under every
\* configuration with overlap < chunk_size: a turn of the loop either ends it,
\* the window's end having reached the end of the words, or moves the window's
\* start strictly forward; and a loop that runs comes to its end.
ChunkLoopTerminates ==
  /\ [][ChunkLoopRuns =>
          \/ /\ last'.pc = "done"
             /\ last.start + last.chunk_size >= Len(last.words)
          \/ /\ last'.pc = "loop"
             /\ last'.start > last.start
             /\ last.start + last.chunk_size < Len(last.words)]_vars
  /\ (ChunkLoopRuns ~> SplitReturned)

\* a loop of several turns over an overlapping window came to its end
LoopEndedAfterSeveralTurns ==
  /\ SplitReturned
  /\ last.turns >= 5
  /\ last.overlap > 0
  /\ last.overlap < last.chunk_size

\* C19: a configuration with chunk_overlap >= chunk_size is rejected with an
\* error when the configuration is loaded.
LoadedConfigKeepsOverlapBelowSize ==
  (last.op = "load" /\ last.config.ok)
    => last.config.chunk_overlap < last.config.chunk_size

(***************************************************************************)
(* Properties of pages without content                                     *)
(***************************************************************************)
\* the pages of the wiki from which parse_wiki_page extracts no content text
EmptyPages ==
  {page \in DOMAIN Site :
     parse_wiki_page(Url(page), Site[page]).content.text = NoContentText}

\* C20: a page that was fetched but has no content text is counted in
\* pages_scraped, not in errors_encountered, and its ingestion leaves a
\* placeholder chunk for the page in the chunk cache.
EmptyPageKeepsPlaceholderChunk ==
  \A u \in ingested :
    u.page \in EmptyPages =>
      /\ \E f \in fetches : f.url = u /\ f.ok
      /\ \E k \in 1..Len(chunks) : chunks[k].source_url = u

(***************************************************************************)
(* Properties of cosine_similarity                                         *)
(***************************************************************************)
\* what the rounding of the square roots and of the division may add to or
\* take from a similarity, in thousandths
RoundingError == 3

\* what C21 says of every call but the value for identical vectors
CosineLaws ==
  /\ last.similarity = last.exchanged
  /\ Products(last.vec_a, last.vec_b) = 0 => last.similarity = 0
  /\ Magnitude(last.vec_a) = 0 \/ Magnitude(last.vec_b) = 0 => last.similarity = 0
  /\ last.vec_a.len # last.vec_b.len => last.similarity = 0
  /\ last.db_similarity = last.similarity

IdenticalNonZero == last.vec_a = last.vec_b /\ Magnitude(last.vec_a) # 0

StoreEmbeddingsHaveOneLength ==
  \A id \in DOMAIN db, other \in DOMAIN db : db[id].embedding.len = db[other].embedding.len

(***************************************************************************)
(* Properties of generation                                                *)
(***************************************************************************)
Generated == last.op = "generate_response" /\ last.resp.kind = "json"

\* C23 as stated: when the body of the answer carries an `error' field,
\* generate_response returns an error that carries the provider's message,
\* after exactly one request.
ErrorFieldIsSurfaced ==
  (Generated /\ last.resp.error.type # "absent") =>
    /\ ~last.result.ok
    /\ last.result.carried = Some("model not found")
    /\ Len(last.requests) = 1

\* C23 as the code has it: the same for an `error' field that is a string.
ErrorStringIsSurfaced ==
  (Generated /\ last.resp.error.type = "string") =>
    /\ ~last.result.ok
    /\ last.result.carried = Some(last.resp.error.value)
    /\ Len(last.requests) = 1

\* the provider sent an error message next to a response text, and the call
\* returned the error
ErrorReturnedDespiteResponseText ==
  /\ Generated
  /\ last.resp.error.type = "string"
  /\ last.resp.response = [type |-> "string", value |-> "Clay is dug with a shovel."]
  /\ ~last.result.ok
  /\ last.result.cause = "returned"

\* C24: when the provider answers 2xx and the `embedding' field is missing, is
\* no array, is an empty array or is an array with an element that is no
\* number, create_embedding returns the fallback vector of the text.
MalformedEmbeddingFallsBack ==
  (/\ last.op = "embed_text"
   /\ \/ last.resp.kind \in {"missing", "not_array"}
      \/ last.resp.kind = "array" /\ (last.resp.arr.len = 0 \/ last.resp.arr.bad # {}))
    => /\ last.ok
       /\ last.vec = create_mock_embedding(last.text).vec

(***************************************************************************)
(* Properties of the chunker under its tests                               *)
(***************************************************************************)
\* C25: under the default configuration a content of more than chunk_size
\* characters, such as the 2,500 characters of the tests, is split into more
\* than one chunk, and the first chunk has at most chunk_size characters.
LongContentIsSplitByCharacters ==
  (/\ SplitReturned
   /\ last.chunk_size = chunk_size
   /\ last.overlap = chunk_overlap
   /\ Len(last.content) > chunk_size)
    => /\ Len(last.chunks) > 1
       /\ Len(last.chunks[1]) <= chunk_size

(***************************************************************************)
(* Properties of the links and the runs of the crawl                       *)
(***************************************************************************)
\* the URLs that the anchors in the content container of each page lead to, as
\* extract_wiki_links keeps them when it is given those anchors
HtmlLinkTargets ==
  [page \in DOMAIN Site |->
     {full_url(link)[1] :
        link \in {l \in extract_wiki_links([text |-> Site[page].text,
                                            anchors |-> Site[page].anchors]) :
                    full_url(l) # None}}]

\* C26: when a page fetched at a depth below max_depth has anchors to content
\* pages of the wiki in its content container, at least one of those pages is
\* fetched in the same run of the crawl.
HtmlAnchorsAreFollowed ==
  (runs >= 1 /\ ~status.is_updating)
    => \A f \in RunFetches :
         (f.ok /\ f.depth < max_depth /\ HtmlLinkTargets[f.url.page] # {})
           => \E target \in HtmlLinkTargets[f.url.page], g \in RunFetches : g.url = target

\* C27: every run of update_content fetches each of its entry points, also
\* after an earlier run on the same WikiService, so that when the run is over
\* pages_scraped + errors_encountered is at least the number of entry points.
EveryRunFetchesItsEntryPoints ==
  (runs >= 1 /\ ~status.is_updating)
    => /\ \A i \in 1..Len(entry_points) :
            \E f \in RunFetches : f.url = WithBaseUrl(entry_points[i])
       /\ status.pages_scraped + status.errors_encountered >= Len(entry_points)


(***************************************************************************)
(* C28: a get_wiki_status call issued while update_wiki_content is running *)
(* returns a snapshot that says so: the status it reports has              *)
(* is_updating = TRUE.                                                     *)
(***************************************************************************)
StatusReportsRunningUpdate ==
  (last.op = "get_wiki_status" /\ last.asked_while_updating)
    => last.snapshot.is_updating


\* the number of pages a run can reach from its entry points within max_depth
\* when every page gives MaxLinksPerPage links
RECURSIVE Reach(_)
Reach(depth) == IF depth = 0 THEN 1 ELSE 1 + MaxLinksPerPage * Reach(depth - 1)

RunsSoFar == {f.run : f \in fetches}

\* the fetches of one run are bounded by the visited set, by the depth limit
\* and by the link limit
FetchesBounded ==
  \A r \in RunsSoFar :
    \E of_run \in {{f \in fetches : f.run = r}} :
      /\ \A f, g \in of_run : f.url = g.url => f = g
      /\ {f.url : f \in of_run} \subseteq visited_urls
      /\ \A f \in of_run : f.depth <= max_depth
      /\ \A f \in of_run :
           Cardinality({g \in of_run : g.parent = Some(f.url)}) <= MaxLinksPerPage
      /\ Cardinality(of_run) <= Len(entry_points) * Reach(max_depth)

(***************************************************************************)
(* C29: update_content terminates on every link graph, with cycles, with   *)
(* self-links and with any mix of successful and failed fetches: the       *)
(* fetches of a run are bounded by the depth limit, the link limit and the *)
(* visited set, and a run that has started ends with is_updating = FALSE.  *)
(***************************************************************************)
UpdateContentTerminates ==
  /\ []FetchesBounded
  /\ status.is_updating ~> ~status.is_updating

\* a run has ended after it followed a link of a page to itself, a link to a
\* page fetched before from elsewhere and a link to a page not seen before, with
\* fetches that failed and fetches that succeeded
RunEndedOnCyclicGraph ==
  /\ runs >= 1
  /\ ~status.is_updating
  /\ \E l \in followed : l.from = l.to
  /\ \E l \in followed :
       l.from # l.to /\ \E g \in fetches : g.url = l.to /\ g.parent # Some(l.from)
  /\ \E l \in followed :
       l.from # l.to /\ \E g \in fetches : g.url = l.to /\ g.parent = Some(l.from)
  /\ \E f, g \in fetches : f.ok /\ ~g.ok


(***************************************************************************)
(* C30: a call process_wiki_page(title, url, content) passes to            *)
(* insert_documents only records of that call's page: every document of    *)
(* the batch has source_url = url, and no record of a page ingested by an   *)
(* earlier call is written again.  The batch is built from the cache as the *)
(* call leaves it.                                                          *)
(***************************************************************************)
InsertedBatchIsOfThisPage ==
  (last.op = "process_wiki_page" /\ chunks # <<>>)
    => \E documents \in {Documents(chunks)} :
         \A k \in DOMAIN documents : documents[k].source_url = last.page.url


\* the parts no returned link may contain
NonContentParts == {SpecialNs, FileNs, CategoryNs, Hash}

(***************************************************************************)
(* C31: no link returned by extract_wiki_links contains "Special:",        *)
(* "File:", "Category:" or "#", whatever the document, and so no URL that  *)
(* scrape_page_recursive makes of a returned link does.                    *)
(***************************************************************************)
ReturnedLinksAreContentLinks ==
  last.op = "extract_wiki_links"
    => \A link \in last.links \cup last.urls :
         \A part \in NonContentParts : ~Contains(link, part)

\* links were returned for a document that also has a file link, a special
\* page and an anchor link
LinksReturnedForTestDocument ==
  /\ last.op = "extract_wiki_links"
  /\ last.hrefs = TestDocument
  /\ last.links # {}
  /\ last.urls # {}

(***************************************************************************)
(* C32: an href of the form /wiki/<Page>, without a namespace prefix and   *)
(* without a fragment, is in the list extract_wiki_links returns as it is  *)
(* written in the document, e.g. "/wiki/Tools" and "/wiki/Crafting".       *)
(***************************************************************************)
ContentHrefIsReturnedUnchanged ==
  last.op = "extract_wiki_links"
    => \A href \in last.hrefs :
         (StartsWith(href, WikiPrefix) /\ \A part \in NonContentParts : ~Contains(href, part))
           => href \in last.links


(***************************************************************************)
(* C33: the records of a previous run that the first EmbeddingService of   *)
(* this process found in the durable store (no other process held its      *)
(* lock) are still in the durable store when startup is over, that is,     *)
(* after ChatService::new has opened the same location a second time.      *)
(***************************************************************************)
PreviousRecordsSurviveStartup ==
  (/\ boot.pc = "done"
   /\ boot.handles[1] = "durable"
   /\ db = PreviousStore
   /\ PreviousStore # <<>>)
    => disk.populated


\* the order in which the mutexes are taken
Rank(mutex) ==
  CASE mutex \in {"chat_service", "wiki_service"} -> 0
    [] mutex \in {"embedding_service", "ollama_manager"} -> 1
    [] mutex = "vector_db" -> 2

Running == {i \in DOMAIN tasks.commands : Invocation(i).pc = "running"}

\* the invocation can take its next step
CanGoOn(i) ==
  \/ Invocation(i).script = <<>>
  \/ Head(Invocation(i).script)[1] = "unlock"
  \/ Free(locks[Head(Invocation(i).script)[2]])

AllReturned ==
  /\ Len(tasks.commands) >= 1
  /\ \A i \in DOMAIN tasks.commands : Invocation(i).pc = "done"

(***************************************************************************)
(* C34: concurrent command invocations never deadlock.  Each invocation     *)
(* takes its mutexes in one order (chat or wiki service, then embedding     *)
(* service or Ollama manager, then vector store), so whenever an invocation *)
(* is running one of the running invocations can go on; and every           *)
(* invocation returns, holding no lock.                                     *)
(***************************************************************************)
CommandsAreDeadlockFree ==
  /\ [](\A i \in DOMAIN tasks.commands :
          \A k, l \in 1..Len(Invocation(i).held) :
            k < l => Rank(Invocation(i).held[k]) < Rank(Invocation(i).held[l]))
  /\ [](Running # {} => \E i \in Running : CanGoOn(i))
  /\ [](\A i \in DOMAIN tasks.commands :
          Invocation(i).pc = "done" =>
            \A mutex \in DOMAIN locks : locks[mutex] # InvocationNames[i])
  /\ \A n \in 1..MaxInvocations :
       (n \in DOMAIN tasks.commands)
         ~> (n \in DOMAIN tasks.commands /\ Invocation(n).pc = "done")

\* a send_message that holds the chat service waits for the embedding service
\* while an update_wiki_content holds it together with the wiki service
WaitingWhileHolding ==
  \E i, j \in Running :
    /\ Invocation(i).cmd = "send_message"
    /\ Invocation(j).cmd = "update_wiki_content"
    /\ Invocation(i).held = <<"chat_service">>
    /\ Invocation(i).script # <<>>
    /\ Head(Invocation(i).script) = Lock("embedding_service")
    /\ locks.embedding_service = InvocationNames[j]
    /\ locks.wiki_service = InvocationNames[j]


(***************************************************************************)
(* C35: install_windows makes at most MAX_RETRIES download attempts, runs   *)
(* the installer as soon as one attempt has succeeded, and returns the      *)
(* last download error only when every attempt failed.                      *)
(***************************************************************************)
InstallerRunsAfterFirstGoodDownload ==
  last.op = "install_windows" =>
    /\ Len(last.downloads) <= MAX_RETRIES
    /\ \A k \in 1..Len(last.downloads) - 1 : last.downloads[k] # "ok"
    /\ last.pc = "done" =>
         /\ (\E k \in 1..Len(last.downloads) : last.downloads[k] = "ok")
              => last.installer # None
         /\ last.installer = None =>
              /\ Len(last.downloads) = MAX_RETRIES
              /\ \A k \in 1..MAX_RETRIES : last.downloads[k] # "ok"
              /\ last.result = Some([ok |-> FALSE, error |-> last.downloads[MAX_RETRIES]])


(***************************************************************************)
(* C36: after any sequence of start_service, ensure_available and shutdown *)
(* calls, every child the manager spawned that is still running is the one *)
(* in its process field, so that shutdown or drop ends every process the   *)
(* manager started; shutdown without a tracked process returns Ok and      *)
(* changes nothing.                                                        *)
(***************************************************************************)
RunningChildIsTracked ==
  /\ \A child \in DOMAIN Manager.children :
       Manager.children[child] = "running" => Manager.process = Some(child)
  /\ (last.op = "shutdown" /\ last.before.process = None)
       => (last.ok /\ Manager = last.before)


(***************************************************************************)
(* C37: a send_message whose message fails validate_message_content or     *)
(* whose model name fails validate_model_name returns an error and leaves  *)
(* the configured model, the conversation history and the retrieval and    *)
(* generation calls made as they were.                                     *)
(***************************************************************************)
Rejected ==
  /\ last.op = "send_message"
  /\ \/ ~validate_message_content(last.message)
     \/ last.model # None /\ ~validate_model_name(last.model[1])

InvalidInputChangesNothing ==
  Rejected =>
    /\ ~last.ok
    /\ Session.model_name = last.before.model_name
    /\ Session.conversation_history = last.before.conversation_history
    /\ Session.calls = last.before.calls

\* a valid message with an invalid model name is refused after an exchange
\* under another model
RejectedModelAfterExchange ==
  /\ Rejected
  /\ validate_message_content(last.message)
  /\ Session.model_name = ModelLlama
  /\ Session.conversation_history # <<>>


(***************************************************************************)
(* C38: at every point of a run pages_scraped + errors_encountered is the  *)
(* number of URLs whose fetch has finished in the run, each URL fetched    *)
(* once and counted in one of the two counters; after the run total_pages  *)
(* is pages_scraped; an entry point scraped without error whose page has   *)
(* no content links accounts for that one page only: nothing is followed   *)
(* or fetched from it.                                                     *)
(***************************************************************************)
\* the entry points fetched in this run whose pages have no link to follow
LeafSeeds ==
  {f \in RunFetches : f.depth = 0 /\ f.ok /\ LinkTargets[f.url.page] = {}}

CountersCountFinishedFetches ==
  /\ runs > 0 =>
       /\ status.pages_scraped + status.errors_encountered = Cardinality(RunFetches)
       /\ status.pages_scraped = Cardinality({f.url : f \in {g \in RunFetches : g.ok}})
       /\ status.errors_encountered = Cardinality({f.url : f \in {g \in RunFetches : ~g.ok}})
       /\ \A f \in RunFetches : \A g \in RunFetches : f.url = g.url => f = g
  /\ (entry = 0 /\ runs > 0) => status.total_pages = status.pages_scraped
  /\ \A f \in LeafSeeds :
       /\ ~\E g \in RunFetches : g.parent = Some(f.url)
       /\ ~\E e \in followed : e.from = f.url /\ e.run = runs

\* a run has ended that scraped an entry point without links, and counted
\* pages and errors
RunEndedWithLeafSeed ==
  /\ entry = 0
  /\ runs > 0
  /\ LeafSeeds # {}
  /\ status.pages_scraped > 1
  /\ status.errors_encountered > 0
  /\ status.total_pages = status.pages_scraped


(***************************************************************************)
(* C39: a second process_wiki_page with the title, url and content of the  *)
(* call before it, and the same answers of the provider and the store,     *)
(* leaves the store's record count and get_chunk_count as the first call   *)
(* left them.                                                              *)
(***************************************************************************)
SamePageAgain ==
  /\ last.op = "process_wiki_page"
  /\ last'.op = "process_wiki_page"
  /\ ops' = ops + 1
  /\ last'.page = last.page
  /\ last'.resps = last.resps
  /\ last'.fault = last.fault

ReingestStep ==
  SamePageAgain =>
    /\ count_documents(db') = count_documents(db)
    /\ get_chunk_count(chunks') = get_chunk_count(chunks)

ReingestIsIdempotent == [][ReingestStep]_vars


(***************************************************************************)
(* C40: create_mock_embedding is a function of the text alone: calls with  *)
(* the same text return the same vector whatever the cache held, the       *)
(* vector has 384 components, and apart from the three statistics its      *)
(* components are at the slots of the first 100 words, the slot of a word  *)
(* being the sum of byte * 31^(n - i) modulo 2^32, modulo 384.             *)
(***************************************************************************)
\* a u32 [hi, lo] times a factor below 2^8, modulo 2^32
TimesSmall(x, factor) ==
  With(x.lo * factor, LAMBDA low :
    [hi |-> (x.hi * factor + low \div 65536) % 65536, lo |-> low % 65536])

\* the sum of two u32, modulo 2^32
Plus32(x, y) ==
  With(x.lo + y.lo, LAMBDA low :
    [hi |-> (x.hi + y.hi + low \div 65536) % 65536, lo |-> low % 65536])

RECURSIVE Power31(_)
Power31(k) == IF k = 0 THEN [hi |-> 0, lo |-> 1] ELSE TimesSmall(Power31(k - 1), 31)

\* the sum over the bytes from the i-th on of byte * 31^(n - i), modulo 2^32
RECURSIVE PolynomialHash(_, _)
PolynomialHash(word, i) ==
  IF i > Len(word) THEN [hi |-> 0, lo |-> 0]
  ELSE Plus32(TimesSmall(Power31(Len(word) - i), word[i]), PolynomialHash(word, i + 1))

\* a u32 modulo 384
Mod384(x) == ((x.hi % 384) * 65536 + x.lo) % 384

\* the slots the claim gives the text: those of its first 100 words
ClaimedSlots(text) ==
  With(SplitWhitespace(text), LAMBDA words :
    {Mod384(PolynomialHash(words[k], 1)) : k \in 1..Min(Len(words), 100)})

SlotsClaimedFor == [text \in MockTexts |-> ClaimedSlots(text)]

=============================================================================
